---- MODULE Spec2Model ----
(***************************************************************************)
(* Project listing and ranking view of the judging site                    *)
(* (accounts/views.py: project_list and its helpers), over the tables of   *)
(* core/models.py that it reads.                                           *)
(*                                                                         *)
(* Six specifications: Spec, requests to the project list over stored      *)
(* data; CallSpec, the helper functions called on any argument values;     *)
(* EntrySpec, list entries edited through the admin forms; FoodSpec and    *)
(* FoodRaceSpec, food_checkin requests served one at a time and at the     *)
(* same time; TeamSpec, my_project_entry and project_detail.               *)
(*                                                                         *)
(* Text that is ordered (titles) or trimmed (the "list" query parameter)   *)
(* is a sequence of code points, compared as Python compares str.          *)
(* Text that is only tested for equality (roles, category codes, flag      *)
(* names, sort fields) is a TLA+ string.  A nullable value is <<>> (None)  *)
(* or <<v>>.  A Decimal with two fraction digits is an integer number of   *)
(* hundredths; an average is the exact fraction [num, den].                *)
(***************************************************************************)
EXTENDS Integers, Sequences, FiniteSets, TLC

VARIABLES
  Project,           \* catalog: sequence of Project rows, in iteration order
  ScoreRecord,       \* ScoreRecord rows per project id: sequence of records
  ProjectList,       \* sequence of ProjectList rows (list configurations)
  ProjectListEntry,  \* set of ProjectListEntry rows
  response,          \* the response of the request being served: <<>> or <<record>>
  call,              \* a helper function being called on its own: <<>> or <<record>>
  Team,              \* set of Team rows
  FoodCheckInStatus, \* set of FoodCheckInStatus rows
  now,               \* timezone.now(), in minutes
  request            \* food_checkin requests served concurrently: sequence of records

vars == <<Project, ScoreRecord, ProjectList, ProjectListEntry, response, call,
          Team, FoodCheckInStatus, now, request>>

(* what the project list, the helpers and the list admin never touch *)
elsewhere == <<Team, FoodCheckInStatus, now, request>>

Nowhere ==
  /\ Team = {}
  /\ FoodCheckInStatus = {}
  /\ now = 0
  /\ request = <<>>

-----------------------------------------------------------------------------
(* Bounds of the model *)

MaxProjects == 3   \* projects in the catalog

MaxRank == 1       \* manual_rank values are 0..MaxRank

MaxLimit == 2      \* limit values are 0..MaxLimit

-----------------------------------------------------------------------------
(* Python values *)

None == <<>>

Some(v) == <<v>>

IsNone(o) == o = <<>>

Val(o) == o[1]

Range(s) == { s[i] : i \in 1..Len(s) }

(* str.lower() on ASCII letters *)
LowerChar(c) == IF c \in 65..90 THEN c + 32 ELSE c

Lower(s) == [i \in 1..Len(s) |-> LowerChar(s[i])]

(* str.strip(): drop leading and trailing spaces *)
RECURSIVE LStrip(_)
LStrip(s) == IF s # <<>> /\ Head(s) = 32 THEN LStrip(Tail(s)) ELSE s

RECURSIVE RStrip(_)
RStrip(s) ==
  IF s # <<>> /\ s[Len(s)] = 32 THEN RStrip(SubSeq(s, 1, Len(s) - 1)) ELSE s

Strip(s) == RStrip(LStrip(s))

(* str < str: lexicographic by code point, a proper prefix is smaller *)
RECURSIVE StrLess(_, _)
StrLess(s, t) ==
  IF t = <<>> THEN FALSE
  ELSE IF s = <<>> THEN TRUE
  ELSE IF Head(s) # Head(t) THEN Head(s) < Head(t)
  ELSE StrLess(Tail(s), Tail(t))

(* Decimal as an exact fraction num/den, den > 0 *)
Frac(n, d) == [num |-> n, den |-> d]

FracLess(a, b) == a.num * b.den < b.num * a.den

FracIsZero(a) == a.num = 0

(* a sort key: text, or a number (timestamp or Decimal) *)
StrKey(s) == [kind |-> "str", s |-> s, q |-> Frac(0, 1)]

NumKey(q) == [kind |-> "num", s |-> <<>>, q |-> q]

KeyLess(a, b) ==
  IF a.kind = "str" THEN StrLess(a.s, b.s) ELSE FracLess(a.q, b.q)

(* list.sort(key=..., reverse=...) on a sequence of [key, row] pairs.  The   *)
(* sort is stable in both directions: with reverse the pairs come out in   *)
(* descending key order and equal keys still keep their input order.       *)
KeyBefore(x, y, reverse) ==
  IF reverse THEN KeyLess(y.key, x.key) ELSE KeyLess(x.key, y.key)

(* put x, which precedes every element of sorted in the input, into       *)
(* sorted: x moves past exactly the elements that come strictly before it, *)
(* so it stays ahead of the elements with an equal key                     *)
RECURSIVE InsertStable(_, _, _)
InsertStable(x, sorted, reverse) ==
  IF sorted = <<>> THEN <<x>>
  ELSE IF KeyBefore(Head(sorted), x, reverse)
       THEN <<Head(sorted)>> \o InsertStable(x, Tail(sorted), reverse)
       ELSE <<x>> \o sorted

RECURSIVE SortPairs(_, _)
SortPairs(pairs, reverse) ==
  IF pairs = <<>> THEN <<>>
  ELSE InsertStable(Head(pairs), SortPairs(Tail(pairs), reverse), reverse)

Reverse(s) == [i \in 1..Len(s) |-> s[Len(s) + 1 - i]]

Rows(pairs) == [i \in 1..Len(pairs) |-> pairs[i].row]

(* variant: descending as the ascending result turned around *)
PySortFlip(pairs, reverse) ==
  IF reverse THEN Reverse(Rows(SortPairs(pairs, FALSE)))
  ELSE Rows(SortPairs(pairs, FALSE))

PySort(pairs, reverse) == Rows(SortPairs(pairs, reverse))

-----------------------------------------------------------------------------
(* JSON values of ProjectList.filter_config: a dict (function on the keys  *)
(* present) whose values are lists of strings, strings, numbers, booleans  *)
(* or null.  A string value is the sequence of its characters; of a number *)
(* only whether it is 0 is kept.  A filter_config that is None itself is   *)
(* JNull.                                                                  *)

JList(xs) == [t |-> "list", items |-> xs, b |-> FALSE]

JStr(chars) == [t |-> "str", items |-> chars, b |-> FALSE]

JNum(nonzero) == [t |-> "num", items |-> <<>>, b |-> nonzero]

JBool(v) == [t |-> "bool", items |-> <<>>, b |-> v]

JNull == [t |-> "null", items |-> <<>>, b |-> FALSE]

(* Python truth value of a JSON value *)
Truthy(v) ==
  CASE v.t \in {"list", "str"} -> v.items # <<>>
    [] v.t \in {"bool", "num"} -> v.b
    [] OTHER -> FALSE

(* a str or a list can be iterated and searched; a number or a bool cannot *)
Iterable(v) == v.t \in {"list", "str"}

(* dict.get(key): None when the key is absent *)
Get(d, key) == IF key \in DOMAIN d THEN d[key] ELSE JNull

(* a or b *)
PyOr(a, b) == IF Truthy(a) THEN a ELSE b

EmptyDict == [k \in {} |-> JNull]

-----------------------------------------------------------------------------
(* accounts/models.py, accounts/views.py: roles *)

Roles == {"admin", "hacktj", "judge", "team", "volunteer"}

_effective_role(user) ==
  IF (user.is_superuser \/ user.is_staff) /\ user.role # "admin"
  THEN "admin"
  ELSE user.role

_audience_filters(role) == {"all", role}

-----------------------------------------------------------------------------
(* accounts/views.py: structural filter *)

PROJECT_FLAG_FIELD_MAP ==
  [flag \in {"beginner", "is_beginner", "mobile", "is_mobile", "web", "is_web",
             "ai_ml", "uses_ai_ml", "roam", "is_roam"} |->
     CASE flag \in {"beginner", "is_beginner"} -> "is_beginner"
       [] flag \in {"mobile", "is_mobile"} -> "is_mobile"
       [] flag \in {"web", "is_web"} -> "is_web"
       [] flag \in {"ai_ml", "uses_ai_ml"} -> "uses_ai_ml"
       [] flag \in {"roam", "is_roam"} -> "is_roam"]

FlagField(flag) ==
  IF flag \in DOMAIN PROJECT_FLAG_FIELD_MAP THEN PROJECT_FLAG_FIELD_MAP[flag]
  ELSE flag

(* truth value of getattr(project, field, False) *)
GetAttr(project, field) ==
  CASE field \in {"is_beginner", "is_mobile", "is_web", "uses_ai_ml", "is_roam"}
         -> project[field]
    [] field \in {"title", "eligible_categories"} -> project[field] # <<>>
    [] field = "main_category" -> project.main_category # ""
    [] field \in {"id", "pk", "created_at", "team"} -> TRUE
    [] OTHER -> FALSE

(* Project.Category codes as Python str: the characters of the code *)
CategoryChars(code) ==
  CASE code = "biomedical" -> <<"b", "i", "o", "m", "e", "d", "i", "c", "a", "l">>
    [] code = "sustainability" ->
         <<"s", "u", "s", "t", "a", "i", "n", "a", "b", "i", "l", "i", "t", "y">>
    [] code = "finance" -> <<"f", "i", "n", "a", "n", "c", "e">>
    [] code = "lifestyle" -> <<"l", "i", "f", "e", "s", "t", "y", "l", "e">>
    [] code = "cyber" -> <<"c", "y", "b", "e", "r">>
    [] code = "quantum" -> <<"q", "u", "a", "n", "t", "u", "m">>
    [] code = "other" -> <<"o", "t", "h", "e", "r">>
    [] OTHER -> <<>>

(* x in s for two str: x occurs in s as a substring *)
IsSubstring(x, s) ==
  \E i \in 0..(Len(s) - Len(x)) : SubSeq(s, i + 1, i + Len(x)) = x

(* What each part of the function does with its key: "pass" (go on),       *)
(* "reject" (return False) or "TypeError" (the operation is not defined    *)
(* for the value).                                                         *)

(* filter_config.get("main_categories") or filter_config.get("categories") *)
MainCategories(filter_config) ==
  PyOr(Get(filter_config, "main_categories"), Get(filter_config, "categories"))

(* if main_categories and project.main_category not in main_categories *)
MainCategoryStep(project, filter_config) ==
  LET main_categories == MainCategories(filter_config)
  IN IF ~ Truthy(main_categories) THEN "pass"
     ELSE IF main_categories.t = "list"
     THEN (IF project.main_category \in Range(main_categories.items)
           THEN "pass" ELSE "reject")
     ELSE IF main_categories.t = "str"
     THEN (IF IsSubstring(CategoryChars(project.main_category),
                          main_categories.items)
           THEN "pass" ELSE "reject")
     ELSE "TypeError"

(* variant: every required tag must be among the project's tags *)
EligibleStepAll(project, filter_config) ==
  LET eligible_required == PyOr(Get(filter_config, "eligible_categories"),
                                JList(<<>>))
  IN IF ~ Truthy(eligible_required) THEN "pass"
     ELSE IF ~ Iterable(eligible_required) THEN "TypeError"
     ELSE IF \A i \in 1..Len(eligible_required.items) :
               eligible_required.items[i] \in Range(project.eligible_categories)
     THEN "pass" ELSE "reject"

(* any(code in project_eligible for code in eligible_required); the codes  *)
(* of a str are its characters                                             *)
EligibleStep(project, filter_config) ==
  LET eligible_required == PyOr(Get(filter_config, "eligible_categories"),
                                JList(<<>>))
  IN IF ~ Truthy(eligible_required) THEN "pass"
     ELSE IF ~ Iterable(eligible_required) THEN "TypeError"
     ELSE IF \E i \in 1..Len(eligible_required.items) :
               eligible_required.items[i] \in Range(project.eligible_categories)
     THEN "pass" ELSE "reject"

(* for flag in require_flags: if not getattr(project, field, False) *)
RequireFlagsStep(project, filter_config) ==
  LET require_flags == PyOr(Get(filter_config, "require_flags"), JList(<<>>))
  IN IF ~ Truthy(require_flags) THEN "pass"
     ELSE IF ~ Iterable(require_flags) THEN "TypeError"
     ELSE IF \E i \in 1..Len(require_flags.items) :
               ~ GetAttr(project, FlagField(require_flags.items[i]))
     THEN "reject" ELSE "pass"

(* for flag in exclude_flags: if getattr(project, field, False) *)
ExcludeFlagsStep(project, filter_config) ==
  LET exclude_flags == PyOr(Get(filter_config, "exclude_flags"), JList(<<>>))
  IN IF ~ Truthy(exclude_flags) THEN "pass"
     ELSE IF ~ Iterable(exclude_flags) THEN "TypeError"
     ELSE IF \E i \in 1..Len(exclude_flags.items) :
               GetAttr(project, FlagField(exclude_flags.items[i]))
     THEN "reject" ELSE "pass"

(* how a call ends *)
Returned(v) == [raised |-> FALSE, value |-> v]

Raised == [raised |-> TRUE, value |-> FALSE]

(* the first step that does not pass decides *)
RECURSIVE RunSteps(_)
RunSteps(steps) ==
  IF steps = <<>> THEN Returned(TRUE)
  ELSE IF Head(steps) = "pass" THEN RunSteps(Tail(steps))
  ELSE IF Head(steps) = "reject" THEN Returned(FALSE)
  ELSE Raised

(* not filter_config: None or an empty dict *)
NoFilter(filter_config) == filter_config = JNull \/ DOMAIN filter_config = {}

(* variant: only an empty dict counts as no filter *)
MatchesFilterCallNoneRejects(project, filter_config) ==
  IF filter_config = JNull THEN Returned(FALSE)
  ELSE IF DOMAIN filter_config = {} THEN Returned(TRUE)
  ELSE RunSteps(<<MainCategoryStep(project, filter_config),
                  EligibleStep(project, filter_config),
                  RequireFlagsStep(project, filter_config),
                  ExcludeFlagsStep(project, filter_config)>>)

(* a call of _project_matches_filter: the value it returns, or the         *)
(* TypeError it raises                                                     *)
MatchesFilterCall(project, filter_config) ==
  IF NoFilter(filter_config) THEN Returned(TRUE)
  ELSE RunSteps(<<MainCategoryStep(project, filter_config),
                  EligibleStep(project, filter_config),
                  RequireFlagsStep(project, filter_config),
                  ExcludeFlagsStep(project, filter_config)>>)

(* the value of a call that returns *)
_project_matches_filter(project, filter_config) ==
  LET r == MatchesFilterCall(project, filter_config)
  IN ~ r.raised /\ r.value

-----------------------------------------------------------------------------
(* accounts/views.py: score summary *)

RECURSIVE SumSeq(_)
SumSeq(s) == IF s = <<>> THEN 0 ELSE Head(s) + SumSeq(Tail(s))

MaxSeq(s) == CHOOSE x \in Range(s) : \A y \in Range(s) : y <= x

MinSeq(s) == CHOOSE x \in Range(s) : \A y \in Range(s) : x <= y

RECURSIVE Present(_)
Present(opts) ==
  IF opts = <<>> THEN <<>>
  ELSE IF IsNone(Head(opts)) THEN Present(Tail(opts))
  ELSE <<Val(Head(opts))>> \o Present(Tail(opts))

(* variant: the averages divide by the number of records *)
ScoreSummaryOverAllRecords(records) ==
  IF records = <<>> THEN None
  ELSE
    LET raw_values ==
          Present([i \in 1..Len(records) |-> records[i].raw_score])
        scaled_values ==
          Present([i \in 1..Len(records) |-> records[i].scaled_score])
    IN Some([
         count |-> Len(records),
         avg_raw |-> IF raw_values # <<>>
                     THEN Some(Frac(SumSeq(raw_values), Len(records)))
                     ELSE None,
         avg_scaled |-> IF scaled_values # <<>>
                        THEN Some(Frac(SumSeq(scaled_values), Len(records)))
                        ELSE None,
         max_raw |-> IF raw_values # <<>> THEN Some(MaxSeq(raw_values)) ELSE None,
         max_scaled |-> IF scaled_values # <<>> THEN Some(MaxSeq(scaled_values))
                        ELSE None,
         min_raw |-> IF raw_values # <<>> THEN Some(MinSeq(raw_values)) ELSE None,
         min_scaled |-> IF scaled_values # <<>> THEN Some(MinSeq(scaled_values))
                        ELSE None ])

_score_summary_from_records(records) ==
  IF records = <<>> THEN None
  ELSE
    LET raw_values ==
          Present([i \in 1..Len(records) |-> records[i].raw_score])
        scaled_values ==
          Present([i \in 1..Len(records) |-> records[i].scaled_score])
    IN Some([
         count |-> Len(records),
         avg_raw |-> IF raw_values # <<>>
                     THEN Some(Frac(SumSeq(raw_values), Len(raw_values)))
                     ELSE None,
         avg_scaled |-> IF scaled_values # <<>>
                        THEN Some(Frac(SumSeq(scaled_values), Len(scaled_values)))
                        ELSE None,
         max_raw |-> IF raw_values # <<>> THEN Some(MaxSeq(raw_values)) ELSE None,
         max_scaled |-> IF scaled_values # <<>> THEN Some(MaxSeq(scaled_values))
                        ELSE None,
         min_raw |-> IF raw_values # <<>> THEN Some(MinSeq(raw_values)) ELSE None,
         min_scaled |-> IF scaled_values # <<>> THEN Some(MinSeq(scaled_values))
                        ELSE None ])

-----------------------------------------------------------------------------
(* accounts/views.py: project_list *)

(* the contents of the tables the view reads *)
Data(projects, scores, lists, entries) ==
  [Project |-> projects, ScoreRecord |-> scores, ProjectList |-> lists,
   ProjectListEntry |-> entries]

Stored == Data(Project, ScoreRecord, ProjectList, ProjectListEntry)

SortFields == {"alphabetical", "score_raw", "score_scaled", "created"}

(* ProjectList.objects.filter(audience__in=...).order_by("title") *)
available_lists(lists, role) ==
  LET visible == SelectSeq(lists,
                           LAMBDA l : l.audience \in _audience_filters(role))
  IN PySort([i \in 1..Len(visible) |->
               [key |-> StrKey(visible[i].title), row |-> visible[i]]], FALSE)

(* QuerySet.first() *)
First(rows) == IF rows = <<>> THEN None ELSE Some(rows[1])

(* variant: an unknown slug falls back to the default selection *)
SelectedListDefaultOn404(lists, role, list_slug) ==
  LET available == available_lists(lists, role)
      default_candidates == SelectSeq(available, LAMBDA l : l.is_default)
      own == First(SelectSeq(default_candidates, LAMBDA l : l.audience = role))
      by_default ==
        IF default_candidates # <<>>
        THEN (IF ~ IsNone(own) THEN own ELSE First(default_candidates))
        ELSE None
      fallback == IF ~ IsNone(by_default) THEN by_default ELSE First(available)
      by_slug == First(SelectSeq(available, LAMBDA l : l.slug = list_slug))
  IN IF list_slug # <<>> /\ ~ IsNone(by_slug)
     THEN [http404 |-> FALSE, selected_list |-> by_slug]
     ELSE [http404 |-> FALSE, selected_list |-> fallback]

(* variant: the first default in title order, whatever its audience *)
SelectedListFirstDefault(lists, role, list_slug) ==
  LET available == available_lists(lists, role)
  IN IF list_slug # <<>>
     THEN LET by_slug == First(SelectSeq(available, LAMBDA l : l.slug = list_slug))
          IN [http404 |-> IsNone(by_slug), selected_list |-> by_slug]
     ELSE
       LET default_candidates == SelectSeq(available, LAMBDA l : l.is_default)
       IN [http404 |-> FALSE,
           selected_list |-> IF default_candidates # <<>>
                             THEN First(default_candidates)
                             ELSE First(available)]

(* the list configuration for a stripped slug: Http404 for a slug that is  *)
(* not among the available lists, otherwise the list or None               *)
SelectedList(lists, role, list_slug) ==
  LET available == available_lists(lists, role)
  IN IF list_slug # <<>>
     THEN LET by_slug == First(SelectSeq(available, LAMBDA l : l.slug = list_slug))
          IN [http404 |-> IsNone(by_slug), selected_list |-> by_slug]
     ELSE
       LET default_candidates == SelectSeq(available, LAMBDA l : l.is_default)
           own == First(SelectSeq(default_candidates,
                                  LAMBDA l : l.audience = role))
           by_default ==
             IF default_candidates # <<>>
             THEN (IF ~ IsNone(own) THEN own ELSE First(default_candidates))
             ELSE None
       IN [http404 |-> FALSE,
           selected_list |-> IF ~ IsNone(by_default) THEN by_default
                             ELSE First(available)]

(* entries_map.get(project.id) for the selected list *)
EntryFor(entries, selected_list, project) ==
  IF IsNone(selected_list) THEN None
  ELSE LET es == { e \in entries :
                     /\ e.project_list = Val(selected_list).id
                     /\ e.project = project.id }
       IN IF es = {} THEN None ELSE Some(CHOOSE e \in es : TRUE)

(* variant: only score_raw is downgraded *)
EffectiveSortFieldRawOnly(show_scores, sort_field) ==
  IF ~ show_scores /\ sort_field = "score_raw" THEN "alphabetical"
  ELSE sort_field

(* variant: no downgrade *)
EffectiveSortFieldAsConfigured(show_scores, sort_field) == sort_field

(* a score sort is downgraded for a viewer who may not see scores *)
EffectiveSortField(show_scores, sort_field) ==
  IF ~ show_scores /\ sort_field \in {"score_raw", "score_scaled"}
  THEN "alphabetical"
  ELSE sort_field

(* variant: the whitelist flag is tested before the blacklist flag *)
IncludeWhitelistFirst(project, entry, selected_list, filter_config) ==
  LET whitelist_only == Truthy(Get(filter_config, "whitelist_only"))
  IN IF ~ IsNone(entry) /\ Val(entry).is_whitelisted THEN TRUE
     ELSE IF ~ IsNone(entry) /\ Val(entry).is_blacklisted THEN FALSE
     ELSE IF ~ IsNone(selected_list)
     THEN (IF whitelist_only THEN FALSE
           ELSE _project_matches_filter(project, filter_config))
     ELSE TRUE

(* variant: whitelist-only still applies the structural filter *)
IncludeWhitelistOnlyAndFilter(project, entry, selected_list, filter_config) ==
  LET whitelist_only == Truthy(Get(filter_config, "whitelist_only"))
  IN IF ~ IsNone(entry) /\ Val(entry).is_blacklisted THEN FALSE
     ELSE IF ~ IsNone(selected_list)
     THEN (IF whitelist_only
           THEN /\ _project_matches_filter(project, filter_config)
                /\ ~ IsNone(entry) /\ Val(entry).is_whitelisted
           ELSE IF ~ IsNone(entry) /\ Val(entry).is_whitelisted THEN TRUE
           ELSE _project_matches_filter(project, filter_config))
     ELSE TRUE

(* variant: a whitelisted project still has to pass the filter *)
IncludeNoWhitelistBypass(project, entry, selected_list, filter_config) ==
  LET whitelist_only == Truthy(Get(filter_config, "whitelist_only"))
  IN IF ~ IsNone(entry) /\ Val(entry).is_blacklisted THEN FALSE
     ELSE IF ~ IsNone(selected_list)
     THEN (IF whitelist_only
           THEN ~ IsNone(entry) /\ Val(entry).is_whitelisted
           ELSE _project_matches_filter(project, filter_config))
     ELSE TRUE

(* variant: the filter is applied only to projects that have an entry *)
IncludeFilterOnlyForEntries(project, entry, selected_list, filter_config) ==
  LET whitelist_only == Truthy(Get(filter_config, "whitelist_only"))
  IN IF ~ IsNone(entry) /\ Val(entry).is_blacklisted THEN FALSE
     ELSE IF ~ IsNone(selected_list)
     THEN (IF whitelist_only
           THEN ~ IsNone(entry) /\ Val(entry).is_whitelisted
           ELSE IF ~ IsNone(entry) /\ Val(entry).is_whitelisted THEN TRUE
           ELSE IF IsNone(entry) THEN TRUE
           ELSE _project_matches_filter(project, filter_config))
     ELSE TRUE

(* the include decision of the loop over the catalog *)
Include(project, entry, selected_list, filter_config) ==
  LET whitelist_only == Truthy(Get(filter_config, "whitelist_only"))
  IN IF ~ IsNone(entry) /\ Val(entry).is_blacklisted THEN FALSE
     ELSE IF ~ IsNone(selected_list)
     THEN (IF whitelist_only
           THEN ~ IsNone(entry) /\ Val(entry).is_whitelisted
           ELSE IF ~ IsNone(entry) /\ Val(entry).is_whitelisted THEN TRUE
           ELSE _project_matches_filter(project, filter_config))
     ELSE TRUE

(* the rows appended by the loop, in catalog order *)
RECURSIVE BuildRows(_, _, _, _, _)
BuildRows(projects, scores, entries, selected_list, filter_config) ==
  IF projects = <<>> THEN <<>>
  ELSE
    LET project == Head(projects)
        entry == EntryFor(entries, selected_list, project)
        rest == BuildRows(Tail(projects), scores, entries, selected_list,
                          filter_config)
    IN IF Include(project, entry, selected_list, filter_config)
       THEN <<[project |-> project,
               entry |-> entry,
               score_summary |->
                 _score_summary_from_records(scores[project.id])]>> \o rest
       ELSE rest

MinusOne == Frac(-100, 1)

(* variant: titles are compared as stored *)
sort_keyCaseSensitive(item, sort_field) ==
  CASE sort_field = "created" -> NumKey(Frac(item.project.created_at, 1))
    [] sort_field = "score_raw" ->
         NumKey(IF IsNone(item.score_summary) \/ IsNone(Val(item.score_summary).avg_raw)
                   \/ FracIsZero(Val(Val(item.score_summary).avg_raw))
                THEN MinusOne ELSE Val(Val(item.score_summary).avg_raw))
    [] sort_field = "score_scaled" ->
         NumKey(IF IsNone(item.score_summary) \/ IsNone(Val(item.score_summary).avg_scaled)
                   \/ FracIsZero(Val(Val(item.score_summary).avg_scaled))
                THEN MinusOne ELSE Val(Val(item.score_summary).avg_scaled))
    [] OTHER -> StrKey(item.project.title)

(* variant: an unknown sort_field falls to project.created_at *)
sort_keyUnknownAsCreated(item, sort_field) ==
  CASE sort_field = "alphabetical" -> StrKey(Lower(item.project.title))
    [] sort_field = "score_raw" ->
         NumKey(IF IsNone(item.score_summary)
                   \/ IsNone(Val(item.score_summary).avg_raw)
                   \/ FracIsZero(Val(Val(item.score_summary).avg_raw))
                THEN MinusOne ELSE Val(Val(item.score_summary).avg_raw))
    [] sort_field = "score_scaled" ->
         NumKey(IF IsNone(item.score_summary)
                   \/ IsNone(Val(item.score_summary).avg_scaled)
                   \/ FracIsZero(Val(Val(item.score_summary).avg_scaled))
                THEN MinusOne ELSE Val(Val(item.score_summary).avg_scaled))
    [] OTHER -> NumKey(Frac(item.project.created_at, 1))

(* x or Decimal("-1") for an average that may be None *)
OrMinusOne(avg) ==
  IF IsNone(avg) \/ FracIsZero(Val(avg)) THEN MinusOne ELSE Val(avg)

sort_key(item, sort_field) ==
  CASE sort_field = "alphabetical" -> StrKey(Lower(item.project.title))
    [] sort_field = "created" -> NumKey(Frac(item.project.created_at, 1))
    [] sort_field = "score_raw" ->
         NumKey(IF IsNone(item.score_summary) THEN MinusOne
                ELSE OrMinusOne(Val(item.score_summary).avg_raw))
    [] sort_field = "score_scaled" ->
         NumKey(IF IsNone(item.score_summary) THEN MinusOne
                ELSE OrMinusOne(Val(item.score_summary).avg_scaled))
    [] OTHER -> StrKey(Lower(item.project.title))

IsManual(row) == ~ IsNone(row.entry) /\ ~ IsNone(Val(row.entry).manual_rank)

manual_rows(rows) == SelectSeq(rows, IsManual)

auto_rows(rows) ==
  SelectSeq(rows, LAMBDA row : row \notin Range(manual_rows(rows)))

(* variant: auto_rows + manual_rows *)
OrderedRowsAutoFirst(rows, sort_field, sort_desc) ==
  LET manual == manual_rows(rows)
      auto == auto_rows(rows)
  IN PySort([i \in 1..Len(auto) |->
               [key |-> sort_key(auto[i], sort_field), row |-> auto[i]]], sort_desc)
     \o PySort([i \in 1..Len(manual) |->
               [key |-> NumKey(Frac(Val(Val(manual[i].entry).manual_rank), 1)),
                row |-> manual[i]]], FALSE)

(* variant: manual_rows.sort(..., reverse=sort_desc) *)
OrderedRowsManualReversed(rows, sort_field, sort_desc) ==
  LET manual == manual_rows(rows)
      auto == auto_rows(rows)
  IN PySort([i \in 1..Len(manual) |->
               [key |-> NumKey(Frac(Val(Val(manual[i].entry).manual_rank), 1)),
                row |-> manual[i]]], sort_desc)
     \o PySort([i \in 1..Len(auto) |->
               [key |-> sort_key(auto[i], sort_field), row |-> auto[i]]], sort_desc)

(* manual_rows + auto_rows after both sorts *)
OrderedRows(rows, sort_field, sort_desc) ==
  LET manual == manual_rows(rows)
      auto == auto_rows(rows)
  IN PySort([i \in 1..Len(manual) |->
               [key |-> NumKey(Frac(Val(Val(manual[i].entry).manual_rank), 1)),
                row |-> manual[i]]], FALSE)
     \o PySort([i \in 1..Len(auto) |->
               [key |-> sort_key(auto[i], sort_field), row |-> auto[i]]], sort_desc)

(* variant: ordered_rows[:limit] when limit is not None *)
TruncateAtZero(rows, limit) ==
  IF ~ IsNone(limit)
  THEN SubSeq(rows, 1, IF Val(limit) < Len(rows) THEN Val(limit) ELSE Len(rows))
  ELSE rows

(* ordered_rows[:limit] when limit is truthy *)
Truncate(rows, limit) ==
  IF ~ IsNone(limit) /\ Val(limit) # 0
  THEN SubSeq(rows, 1, IF Val(limit) < Len(rows) THEN Val(limit) ELSE Len(rows))
  ELSE rows

(* variant: enumerate(ordered_rows) *)
RankedFromZero(rows) ==
  [i \in 1..Len(rows) |->
     [project |-> rows[i].project, entry |-> rows[i].entry,
      score_summary |-> rows[i].score_summary, rank |-> i - 1]]

(* enumerate(ordered_rows, start=1) *)
Ranked(rows) ==
  [i \in 1..Len(rows) |->
     [project |-> rows[i].project, entry |-> rows[i].entry,
      score_summary |-> rows[i].score_summary, rank |-> i]]

NoContext(status, role, list_slug) ==
  [status |-> status, role |-> role, requested |-> list_slug,
   show_scores |-> FALSE,
   selected_list |-> None, list_slug |-> <<>>, included |-> <<>>,
   project_rows |-> <<>>,
   total_projects |-> 0, display_count |-> 0, limit |-> None]

(* the filter is evaluated for every project of a selected list that is    *)
(* not blacklisted, and a TypeError it raises ends the request             *)
FilterRaises(projects, entries, selected_list, filter_config) ==
  /\ ~ IsNone(selected_list)
  /\ \E i \in 1..Len(projects) :
       LET entry == EntryFor(entries, selected_list, projects[i])
       IN /\ ~ (~ IsNone(entry) /\ Val(entry).is_blacklisted)
          /\ MatchesFilterCall(projects[i], filter_config).raised

(* The view over given table contents.  The record is the template        *)
(* context, with the effective role of the user, the stripped "list"      *)
(* parameter of the request (requested) and the ids of the rows the loop   *)
(* kept (included).                                                        *)
project_list_on(db, user, list_param) ==
  LET role == _effective_role(user)
      show_scores == role \in {"admin", "judge"}
      list_slug == Strip(list_param)
      sel == SelectedList(db.ProjectList, role, list_slug)
      selected_list == sel.selected_list
      filter_config == IF IsNone(selected_list) THEN EmptyDict
                       ELSE IF NoFilter(Val(selected_list).filter_config)
                       THEN EmptyDict
                       ELSE Val(selected_list).filter_config
      sort_field == EffectiveSortField(show_scores,
                      IF IsNone(selected_list) THEN "alphabetical"
                      ELSE Val(selected_list).sort_field)
      sort_desc == IF IsNone(selected_list) THEN FALSE
                   ELSE Val(selected_list).sort_descending
      limit == IF IsNone(selected_list) THEN None ELSE Val(selected_list).limit
      rows == BuildRows(db.Project, db.ScoreRecord, db.ProjectListEntry,
                        selected_list, filter_config)
      ordered_rows == Ranked(Truncate(OrderedRows(rows, sort_field, sort_desc), limit))
  IN IF role \notin {"admin", "judge", "hacktj"}
     THEN NoContext("PermissionDenied", role, list_slug)
     ELSE IF sel.http404 THEN NoContext("Http404", role, list_slug)
     ELSE IF FilterRaises(db.Project, db.ProjectListEntry, selected_list,
                          filter_config)
     THEN NoContext("TypeError", role, list_slug)
     ELSE [status |-> "ok",
           role |-> role,
           requested |-> list_slug,
           show_scores |-> show_scores,
           selected_list |-> selected_list,
           list_slug |-> IF list_slug # <<>> THEN list_slug
                         ELSE IF IsNone(selected_list) THEN <<>>
                         ELSE Val(selected_list).slug,
           included |-> [i \in 1..Len(rows) |-> rows[i].project.id],
           project_rows |-> ordered_rows,
           total_projects |-> Len(db.Project),
           display_count |-> Len(ordered_rows),
           limit |-> limit]

(* variant: the slug is looked up before the role is checked *)
project_listSlugFirst(user, list_param) ==
  LET found == project_list_on(Stored, [role |-> "admin", is_staff |-> FALSE,
                                       is_superuser |-> FALSE], list_param)
  IN IF found.status = "Http404"
     THEN NoContext("Http404", _effective_role(user), Strip(list_param))
     ELSE project_list_on(Stored, user, list_param)

(* the view over the stored tables *)
project_list(user, list_param) == project_list_on(Stored, user, list_param)

-----------------------------------------------------------------------------
(* The stored data a request can meet.  Rows are as core/models.py         *)
(* declares them; fields that the project list never reads are left out.   *)

Ids == 1..MaxProjects

(* "A", "a", "B": equal or ordered differently once case-folded *)
Titles == { <<65>>, <<97>>, <<66>> }

Categories == {"sustainability", "cyber"}

MkProject(id, title, created_at, main_category, eligible_categories, is_beginner) ==
  [id |-> id, title |-> title, created_at |-> created_at,
   main_category |-> main_category, eligible_categories |-> eligible_categories,
   is_beginner |-> is_beginner, is_mobile |-> FALSE, is_web |-> TRUE,
   uses_ai_ml |-> FALSE, is_roam |-> FALSE]

(* what the function reads of a record: each score present or None *)
Record(raw, scaled) == [raw_score |-> raw, scaled_score |-> scaled]

(* a stored ScoreRecord: raw_score is not nullable, scaled_score is *)
Score(raw, scaled) == Record(Some(raw), scaled)

(* no record; 82.00 / 88.50; two records averaging 2.00 raw with one       *)
(* scaled value; 2.00 / -1.50; 0.00 without a scaled score                 *)
ScoreChoices ==
  { <<>>,
    <<Score(8200, Some(8850))>>,
    <<Score(100, None), Score(300, Some(8850))>>,
    <<Score(200, Some(-150))>>,
    <<Score(0, None)>> }

ManualRanks == {None} \cup { Some(r) : r \in 0..MaxRank }

Limits == {None} \cup { Some(n) : n \in 0..MaxLimit }

MkEntry(list_id, project_id, is_whitelisted, is_blacklisted, manual_rank) ==
  [project_list |-> list_id, project |-> project_id,
   is_whitelisted |-> is_whitelisted, is_blacklisted |-> is_blacklisted,
   manual_rank |-> manual_rank]

(* what a project's entry in a list can be: no row, or a row.  Both flags  *)
(* set is kept: the view reads whatever rows the storage hands it.         *)
EntryChoices ==
  {None} \cup { Some([is_whitelisted |-> w, is_blacklisted |-> b, manual_rank |-> r]) :
                  w \in BOOLEAN, b \in BOOLEAN, r \in {None, Some(MaxRank)} }

RankOnlyChoices ==
  { IF IsNone(r) THEN None
    ELSE Some([is_whitelisted |-> FALSE, is_blacklisted |-> FALSE, manual_rank |-> r]) :
      r \in ManualRanks }

FlagOnlyChoices ==
  { None,
    Some([is_whitelisted |-> TRUE, is_blacklisted |-> FALSE, manual_rank |-> None]),
    Some([is_whitelisted |-> FALSE, is_blacklisted |-> TRUE, manual_rank |-> None]),
    Some([is_whitelisted |-> TRUE, is_blacklisted |-> TRUE, manual_rank |-> None]) }

FilterChoices ==
  { EmptyDict,
    [k \in {"main_categories"} |-> JList(<<"sustainability">>)],
    [k \in {"categories"} |-> JList(<<"cyber", "quantum">>)],
    [k \in {"main_categories", "require_flags"} |->
       IF k = "main_categories" THEN JList(<<"sustainability">>)
       ELSE JList(<<"is_beginner">>)],
    [k \in {"exclude_flags"} |-> JList(<<"beginner">>)],
    [k \in {"eligible_categories"} |-> JList(<<"coder", "social_impact">>)],
    [k \in {"whitelist_only"} |-> JBool(TRUE)],
    [k \in {"whitelist_only", "main_categories"} |->
       IF k = "whitelist_only" THEN JBool(TRUE) ELSE JList(<<"sustainability">>)],
    [k \in {"whitelist_only", "require_flags"} |->
       IF k = "whitelist_only" THEN JBool(FALSE) ELSE JList(<<"beginner">>)] }

MkList(id, title, slug, audience, is_default, sort_field, descending, limit, filter) ==
  [id |-> id, title |-> title, slug |-> slug, audience |-> audience,
   is_default |-> is_default, sort_field |-> sort_field,
   sort_descending |-> descending, limit |-> limit,
   filter_config |-> filter]

(* the one list of the data sets that vary projects and entries:           *)
(* "Master" with slug "a", for every audience                              *)
OneList(sort_field, sort_descending, limit, filter_config) ==
  <<MkList(1, <<77>>, <<97>>, "all", FALSE, sort_field, sort_descending, limit,
           filter_config)>>

(* attributes of the i-th project where a data set does not vary them *)
PosTitle(i) == << <<66>>, <<97>>, <<65>>, <<98>> >>[((i - 1) % 4) + 1]

PosScores(i) ==
  << <<>>, <<Score(8200, Some(8850))>>, <<Score(0, None)>>,
     <<Score(200, Some(-150))>> >>[((i - 1) % 4) + 1]

PlainProject(i) == MkProject(i, PosTitle(i), i, "sustainability", <<>>, FALSE)

(* the tables hold the rows of d *)
Load(d) ==
  /\ Project = d.Project
  /\ ScoreRecord = d.ScoreRecord
  /\ ProjectList = d.ProjectList
  /\ ProjectListEntry = d.ProjectListEntry

EntriesOf(entry) ==
  { MkEntry(1, i, Val(entry[i]).is_whitelisted, Val(entry[i]).is_blacklisted,
            Val(entry[i]).manual_rank) : i \in { j \in DOMAIN entry : ~ IsNone(entry[j]) } }

(* one project varies in everything the include decision reads, under     *)
(* every filter; the other projects are plain                              *)
IncludeData ==
  \E p \in Ids, c \in Categories, el \in {<<>>, <<"coder">>}, bg \in BOOLEAN,
      e \in EntryChoices, f \in FilterChoices :
    Load(Data([i \in Ids |-> IF i = p
                        THEN MkProject(i, PosTitle(i), i, c, el, bg)
                        ELSE PlainProject(i)],
         [i \in Ids |-> PosScores(i)],
         OneList("alphabetical", FALSE, None, f),
         EntriesOf([i \in Ids |-> IF i = p THEN e ELSE None])))

(* every project has any flags, under a category filter or whitelist-only *)
FlagData ==
  \E e \in [Ids -> FlagOnlyChoices], d \in BOOLEAN,
      f \in { [k \in {"main_categories"} |-> JList(<<"sustainability">>)],
              [k \in {"whitelist_only"} |-> JBool(TRUE)] } :
    Load(Data([i \in Ids |-> MkProject(i, PosTitle(i), i,
                                  IF i % 2 = 0 THEN "cyber" ELSE "sustainability",
                                  <<>>, FALSE)],
         [i \in Ids |-> PosScores(i)],
         OneList("alphabetical", d, None, f),
         EntriesOf(e)))

(* every project has any title, under every sort field and direction *)
TitleData ==
  \E t \in [Ids -> Titles], sf \in SortFields \cup {"votes"}, d \in BOOLEAN :
    Load(Data([i \in Ids |-> MkProject(i, t[i], i, "sustainability", <<>>, FALSE)],
         [i \in Ids |-> PosScores(i)],
         OneList(sf, d, None, EmptyDict),
         {}))

(* every project has any creation time *)
CreatedData ==
  \E c \in [Ids -> 1..2], d \in BOOLEAN :
    Load(Data([i \in Ids |-> MkProject(i, PosTitle(i), c[i], "sustainability", <<>>, FALSE)],
         [i \in Ids |-> PosScores(i)],
         OneList("created", d, None, EmptyDict),
         {}))

(* every project has any score records, under both score sorts *)
ScoreData ==
  \E s \in [Ids -> ScoreChoices], sf \in {"score_raw", "score_scaled"},
      d \in BOOLEAN :
    Load(Data([i \in Ids |-> PlainProject(i)],
         s,
         OneList(sf, d, None, EmptyDict),
         {}))

(* every project has any manual rank *)
RankData ==
  \E e \in [Ids -> RankOnlyChoices], sf \in {"alphabetical", "created"},
      d \in BOOLEAN :
    Load(Data([i \in Ids |-> PlainProject(i)],
         [i \in Ids |-> PosScores(i)],
         OneList(sf, d, None, EmptyDict),
         EntriesOf(e)))

(* every limit, with the last project ranked manually or blacklisted *)
LimitData ==
  \E e \in { None,
              Some([is_whitelisted |-> FALSE, is_blacklisted |-> FALSE,
                    manual_rank |-> Some(0)]),
              Some([is_whitelisted |-> FALSE, is_blacklisted |-> TRUE,
                    manual_rank |-> None]) },
      sf \in {"alphabetical", "score_raw"}, d \in BOOLEAN, l \in Limits :
    Load(Data([i \in Ids |-> PlainProject(i)],
         [i \in Ids |-> PosScores(i)],
         OneList(sf, d, l, EmptyDict),
         EntriesOf([i \in Ids |-> IF i = MaxProjects THEN e ELSE None])))

MixedChoices ==
  { None,
    Some([is_whitelisted |-> FALSE, is_blacklisted |-> FALSE, manual_rank |-> Some(0)]),
    Some([is_whitelisted |-> TRUE, is_blacklisted |-> FALSE, manual_rank |-> None]),
    Some([is_whitelisted |-> FALSE, is_blacklisted |-> TRUE, manual_rank |-> Some(0)]) }

(* titles, flags and manual ranks vary together, under a category filter   *)
(* and a descending sort, with and without a limit                         *)
MixedData ==
  \E t \in [Ids -> {<<97>>, <<66>>}], e \in [Ids -> MixedChoices],
      l \in {None, Some(1)} :
    Load(Data([i \in Ids |-> MkProject(i, t[i], i,
                                  IF i % 2 = 0 THEN "cyber" ELSE "sustainability",
                                  <<>>, FALSE)],
         [i \in Ids |-> PosScores(i)],
         OneList("alphabetical", TRUE, l,
                 [k \in {"main_categories"} |-> JList(<<"sustainability">>)]),
         EntriesOf(e)))

(* filter values that are not lists: a number, a boolean beside            *)
(* whitelist_only, the bare string "web"                                   *)
MalformedChoices ==
  { [k \in {"main_categories"} |-> JNum(TRUE)],
    [k \in {"whitelist_only", "require_flags"} |-> JBool(TRUE)],
    [k \in {"require_flags"} |-> JStr(<<"w", "e", "b">>)] }

(* a list whose filter_config has such a value, with any flags on the      *)
(* first project                                                           *)
MalformedData ==
  \E f \in MalformedChoices, e \in FlagOnlyChoices :
    Load(Data([i \in Ids |-> PlainProject(i)],
         [i \in Ids |-> PosScores(i)],
         OneList("alphabetical", FALSE, None, f),
         EntriesOf([i \in Ids |-> IF i = 1 THEN e ELSE None])))

Audiences == {"all", "team", "judge", "hacktj", "admin"}

(* projectlist_unique_default_per_audience *)
UniqueDefault(ls) ==
  \A i, j \in 1..Len(ls) :
    (ls[i].is_default /\ ls[j].is_default /\ ls[i].audience = ls[j].audience) => i = j

(* zero to two lists of any audience, default or not, in either title order *)
ListChoices ==
  {<<>>}
  \cup { <<MkList(1, <<77>>, <<97>>, a, df, "alphabetical", FALSE, Some(1), EmptyDict)>> :
           a \in Audiences, df \in BOOLEAN }
  \cup { <<MkList(1, t1, <<97>>, a1, df1, "alphabetical", FALSE, Some(1), EmptyDict),
           MkList(2, <<78>>, <<98>>, a2, df2, "created", TRUE, None, EmptyDict)>> :
           t1 \in {<<77>>, <<90>>}, a1 \in Audiences, a2 \in Audiences,
           df1 \in BOOLEAN, df2 \in BOOLEAN }

ListData ==
  \E ls \in { c \in ListChoices : UniqueDefault(c) } :
    Load(Data([i \in Ids |-> PlainProject(i)],
         [i \in Ids |-> PosScores(i)],
         ls,
         IF ls = <<>> THEN {} ELSE {MkEntry(1, 1, FALSE, TRUE, None)}))

(* who asks, and with which "list" query parameter *)
Users ==
  { [role |-> r, is_staff |-> FALSE, is_superuser |-> FALSE] : r \in Roles }
  \cup { [role |-> "team", is_staff |-> TRUE, is_superuser |-> FALSE] }

(* "", " ", "a", " b ", "zz" *)
ListParams == { <<>>, <<32>>, <<97>>, <<32, 98, 32>>, <<122, 122>> }

-----------------------------------------------------------------------------
(* The state machine: stored data, and requests to the project list *)

Init ==
  /\ \/ IncludeData
     \/ FlagData
     \/ TitleData
     \/ CreatedData
     \/ ScoreData
     \/ RankData
     \/ LimitData
     \/ MixedData
     \/ MalformedData
     \/ ListData
  /\ response = None
  /\ call = None
  /\ Nowhere

(* variant: the view drops the entries of the lists as it reads them *)
ProjectListRequestDropsEntries ==
  /\ IsNone(response)
  /\ \E user \in Users, list_param \in ListParams :
       response' = Some(project_list(user, list_param))
  /\ ProjectListEntry' = {}
  /\ UNCHANGED <<Project, ScoreRecord, ProjectList, call>>
  /\ UNCHANGED elsewhere

(* GET /projects/?list=<list_param> by user: the view runs to its return  *)
(* or to the exception it raises                                           *)
ProjectListRequest ==
  /\ IsNone(response)
  /\ \E user \in Users, list_param \in ListParams :
       response' = Some(project_list(user, list_param))
  /\ UNCHANGED <<Project, ScoreRecord, ProjectList, ProjectListEntry, call>>
  /\ UNCHANGED elsewhere

(* the page or the error goes out and the request ends: nothing of it is   *)
(* kept on the server                                                      *)
Respond ==
  /\ ~ IsNone(response)
  /\ response' = None
  /\ UNCHANGED <<Project, ScoreRecord, ProjectList, ProjectListEntry, call>>
  /\ UNCHANGED elsewhere

Next == ProjectListRequest \/ Respond

Spec == Init /\ [][Next]_vars

-----------------------------------------------------------------------------
(* The helper functions called on their own, on any argument values: the   *)
(* tables are empty, and every call returns before the next                *)

(* the dict with the keys that are given a value *)
Dict(given) ==
  [k \in { key \in DOMAIN given : ~ IsNone(given[key]) } |-> Val(given[k])]

(* values of each key: absent, or any JSON value.  "another" holds "other"; *)
(* "web" and "id" as bare strings are read character by character.         *)
MainCategoriesInputs ==
  { None, Some(JNull), Some(JList(<<>>)), Some(JList(<<"cyber">>)),
    Some(JStr(<<>>)), Some(JStr(<<"a", "n", "o", "t", "h", "e", "r">>)),
    Some(JNum(TRUE)), Some(JNum(FALSE)), Some(JBool(TRUE)) }

CategoriesInputs == { None, Some(JList(<<"other", "quantum">>)) }

EligibleInputs ==
  { None, Some(JNull), Some(JList(<<>>)),
    Some(JList(<<"coder", "social_impact">>)),
    Some(JStr(<<"c", "o", "d", "e", "r">>)), Some(JNum(TRUE)) }

RequireFlagsInputs ==
  { None, Some(JNull), Some(JList(<<>>)), Some(JList(<<"beginner">>)),
    Some(JList(<<"is_beginner", "web">>)), Some(JList(<<"title">>)),
    Some(JList(<<"web", "sparkle">>)), Some(JStr(<<"w", "e", "b">>)),
    Some(JNum(TRUE)) }

ExcludeFlagsInputs ==
  { None, Some(JList(<<"beginner">>)), Some(JList(<<"is_beginner">>)),
    Some(JList(<<"mobile">>)), Some(JList(<<"id">>)),
    Some(JList(<<"sparkle", "mobile">>)), Some(JStr(<<"i", "d">>)),
    Some(JBool(TRUE)) }

FilterProjects ==
  { MkProject(1, <<65>>, 1, c, el, bg) :
      c \in {"cyber", "other"}, el \in {<<>>, <<"coder">>}, bg \in BOOLEAN }

MaxRecords == 3    \* records handed to _score_summary_from_records

(* -1.50, 0.00, 2.00 or no value *)
RawInputs == { None, Some(-150), Some(0), Some(200) }

ScaledInputs == { None, Some(-150), Some(200) }

RecordInputs == { Record(raw, scaled) : raw \in RawInputs, scaled \in ScaledInputs }

RecordSeqs == UNION { [1..n -> RecordInputs] : n \in 0..MaxRecords }

CallInit ==
  /\ Project = <<>>
  /\ ScoreRecord = <<>>
  /\ ProjectList = <<>>
  /\ ProjectListEntry = {}
  /\ response = None
  /\ call = None
  /\ Nowhere

(* _project_matches_filter(project, None) *)
MatchesFilterNone ==
  /\ IsNone(call)
  /\ \E project \in FilterProjects :
       call' = Some([fn |-> "_project_matches_filter", project |-> project,
                     filter_config |-> JNull,
                     result |-> MatchesFilterCall(project, JNull)])
  /\ UNCHANGED <<Project, ScoreRecord, ProjectList, ProjectListEntry, response>>
  /\ UNCHANGED elsewhere

(* _project_matches_filter(project, filter_config) for a dict *)
MatchesFilter ==
  /\ IsNone(call)
  /\ \E project \in FilterProjects, mc \in MainCategoriesInputs,
        c \in CategoriesInputs, el \in EligibleInputs,
        rf \in RequireFlagsInputs, xf \in ExcludeFlagsInputs :
       LET filter_config ==
             Dict([main_categories |-> mc, categories |-> c,
                   eligible_categories |-> el, require_flags |-> rf,
                   exclude_flags |-> xf])
       IN call' = Some([fn |-> "_project_matches_filter", project |-> project,
                        filter_config |-> filter_config,
                        result |-> MatchesFilterCall(project, filter_config)])
  /\ UNCHANGED <<Project, ScoreRecord, ProjectList, ProjectListEntry, response>>
  /\ UNCHANGED elsewhere

(* _score_summary_from_records(records) *)
ScoreSummary ==
  /\ IsNone(call)
  /\ \E records \in RecordSeqs :
       call' = Some([fn |-> "_score_summary_from_records", records |-> records,
                     result |-> _score_summary_from_records(records)])
  /\ UNCHANGED <<Project, ScoreRecord, ProjectList, ProjectListEntry, response>>
  /\ UNCHANGED elsewhere

(* the caller has the result *)
Return ==
  /\ ~ IsNone(call)
  /\ call' = None
  /\ UNCHANGED <<Project, ScoreRecord, ProjectList, ProjectListEntry, response>>
  /\ UNCHANGED elsewhere

CallNext == MatchesFilterNone \/ MatchesFilter \/ ScoreSummary \/ Return

CallSpec == CallInit /\ [][CallNext]_vars

-----------------------------------------------------------------------------
(* core/models.py, core/admin.py: list entries are added, changed and      *)
(* deleted through the admin site, whose forms validate the row            *)
(* (full_clean) before they save it                                        *)

(* PositiveIntegerField: manual_rank is None or not negative *)
clean_fields(entry) == IsNone(entry.manual_rank) \/ Val(entry.manual_rank) >= 0

(* ProjectListEntry.clean *)
clean(entry) == ~ (entry.is_whitelisted /\ entry.is_blacklisted)

(* unique_together = ("project_list", "project"), among the other rows *)
validate_unique(others, entry) ==
  ~ \E e \in others :
      e.project_list = entry.project_list /\ e.project = entry.project

(* projectlistentry_no_conflicting_flags *)
no_conflicting_flags(entry) == ~ (entry.is_whitelisted /\ entry.is_blacklisted)

(* variant: only the uniqueness of the row is validated *)
full_cleanUniqueOnly(others, entry) == validate_unique(others, entry)

(* Model.full_clean: no ValidationError *)
full_clean(others, entry) ==
  /\ clean_fields(entry)
  /\ clean(entry)
  /\ validate_unique(others, entry)
  /\ no_conflicting_flags(entry)

(* the database takes the row: its constraints hold *)
Accepts(others, entry) ==
  /\ clean_fields(entry)
  /\ validate_unique(others, entry)
  /\ no_conflicting_flags(entry)

(* the form is validated and, if valid, the row is saved in place of old   *)
(* (None when the row is new)                                              *)
SaveEntry(old, entry) ==
  LET others == IF IsNone(old) THEN ProjectListEntry
                ELSE ProjectListEntry \ {Val(old)}
  IN IF ~ full_clean(others, entry)
     THEN /\ response' = Some([status |-> "ValidationError", entry |-> entry])
          /\ UNCHANGED ProjectListEntry
     ELSE IF ~ Accepts(others, entry)
     THEN /\ response' = Some([status |-> "IntegrityError", entry |-> entry])
          /\ UNCHANGED ProjectListEntry
     ELSE /\ response' = Some([status |-> "saved", entry |-> entry])
          /\ ProjectListEntry' = others \cup {entry}

(* flags and ranks a form can carry; -1 is not a PositiveIntegerField value *)
FormRanks == { None, Some(MaxRank), Some(-1) }

(* admin: add a ProjectListEntry *)
AddEntry ==
  /\ IsNone(response)
  /\ \E l \in 1..Len(ProjectList), project_id \in Ids, w \in BOOLEAN,
        b \in BOOLEAN, r \in FormRanks :
       SaveEntry(None, MkEntry(ProjectList[l].id, project_id, w, b, r))
  /\ UNCHANGED <<Project, ScoreRecord, ProjectList, call>>
  /\ UNCHANGED elsewhere

(* admin: change the flags and the rank of a ProjectListEntry *)
ChangeEntry ==
  /\ IsNone(response)
  /\ \E old \in ProjectListEntry, w \in BOOLEAN, b \in BOOLEAN, r \in FormRanks :
       SaveEntry(Some(old), MkEntry(old.project_list, old.project, w, b, r))
  /\ UNCHANGED <<Project, ScoreRecord, ProjectList, call>>
  /\ UNCHANGED elsewhere

(* admin: delete a ProjectListEntry *)
DeleteEntry ==
  /\ IsNone(response)
  /\ \E old \in ProjectListEntry :
       /\ ProjectListEntry' = ProjectListEntry \ {old}
       /\ response' = Some([status |-> "deleted", entry |-> old])
  /\ UNCHANGED <<Project, ScoreRecord, ProjectList, call>>
  /\ UNCHANGED elsewhere

(* the catalog and one list, without entries yet *)
EntryInit ==
  /\ Load(Data([i \in Ids |-> PlainProject(i)],
               [i \in Ids |-> PosScores(i)],
               OneList("alphabetical", FALSE, None, EmptyDict),
               {}))
  /\ response = None
  /\ call = None
  /\ Nowhere

EntryNext == AddEntry \/ ChangeEntry \/ DeleteEntry \/ Respond

EntrySpec == EntryInit /\ [][EntryNext]_vars

-----------------------------------------------------------------------------
(* What the claims speak about *)

Answered == ~ IsNone(response)

Resp == Val(response)

Ok == Answered /\ Resp.status = "ok"

HasList == Ok /\ ~ IsNone(Resp.selected_list)

Sel == Val(Resp.selected_list)

WhitelistOnly == Truthy(Get(Sel.filter_config, "whitelist_only"))

OutRows == Resp.project_rows

OutIds == { OutRows[i].project.id : i \in 1..Len(OutRows) }

IncludedIds == Range(Resp.included)

(* the stored entries of the selected list for a project *)
SelEntries(id) ==
  { e \in ProjectListEntry : e.project_list = Sel.id /\ e.project = id }

Blacklisted(id) == \E e \in SelEntries(id) : e.is_blacklisted

Whitelisted(id) == \E e \in SelEntries(id) : e.is_whitelisted

CatalogIndex(id) == CHOOSE i \in 1..Len(Project) : Project[i].id = id

RowIsManual(row) == ~ IsNone(row.entry) /\ ~ IsNone(Val(row.entry).manual_rank)

AutoPairs ==
  { <<i, j>> \in (1..Len(OutRows)) \X (1..Len(OutRows)) :
      i < j /\ ~ RowIsManual(OutRows[i]) /\ ~ RowIsManual(OutRows[j]) }

FoldedTitle(row) == Lower(row.project.title)

(* rows i < j of the output are in case-folded title order for the         *)
(* direction, equal titles in catalog order                                *)
TitleOrdered(i, j, descending) ==
  /\ IF descending
     THEN ~ StrLess(FoldedTitle(OutRows[i]), FoldedTitle(OutRows[j]))
     ELSE ~ StrLess(FoldedTitle(OutRows[j]), FoldedTitle(OutRows[i]))
  /\ FoldedTitle(OutRows[i]) = FoldedTitle(OutRows[j])
       => CatalogIndex(OutRows[i].project.id) < CatalogIndex(OutRows[j].project.id)

IdsAndRanks(r) ==
  [i \in 1..Len(r.project_rows) |->
     <<r.project_rows[i].project.id, r.project_rows[i].rank>>]

Viewer(role) == [role |-> role, is_staff |-> FALSE, is_superuser |-> FALSE]

Min(a, b) == IF a < b THEN a ELSE b

-----------------------------------------------------------------------------
(* C1: a project whose entry in the selected list is blacklisted is never  *)
(* among the output rows, whatever the filter, the entry's whitelist flag  *)
(* and manual rank, or whitelist_only.                                     *)
C1_BlacklistWins ==
  HasList => \A i \in 1..Len(Project) :
               Blacklisted(Project[i].id) => Project[i].id \notin OutIds

(* an entry with both flags and a manual rank, on a project the filter     *)
(* accepts, while other rows are shown                                     *)
C1_Witness ==
  /\ HasList
  /\ OutRows # <<>>
  /\ \E i \in 1..Len(Project) :
       /\ \E e \in SelEntries(Project[i].id) :
            e.is_blacklisted /\ e.is_whitelisted /\ ~ IsNone(e.manual_rank)
       /\ _project_matches_filter(Project[i], Sel.filter_config)
       /\ Project[i].id \notin OutIds

(* C2: with whitelist_only set, a project is included exactly when it has  *)
(* an entry that is whitelisted and not blacklisted; the structural filter *)
(* plays no part.                                                          *)
C2_WhitelistOnly ==
  (HasList /\ WhitelistOnly) =>
    \A i \in 1..Len(Project) :
      Project[i].id \in IncludedIds
        <=> (Whitelisted(Project[i].id) /\ ~ Blacklisted(Project[i].id))

(* a whitelisted project the filter rejects is included, and a project the *)
(* filter accepts is left out                                              *)
C2_Witness ==
  /\ HasList /\ WhitelistOnly
  /\ \E i \in 1..Len(Project) :
       /\ Project[i].id \in IncludedIds
       /\ ~ _project_matches_filter(Project[i], Sel.filter_config)
  /\ \E i \in 1..Len(Project) :
       /\ Project[i].id \notin IncludedIds
       /\ ~ Blacklisted(Project[i].id)
       /\ _project_matches_filter(Project[i], Sel.filter_config)

(* C3: with a list selected and whitelist_only not set, a whitelisted and  *)
(* not blacklisted project is included even if the filter rejects it.      *)
C3_WhitelistBypass ==
  (HasList /\ ~ WhitelistOnly) =>
    \A i \in 1..Len(Project) :
      (Whitelisted(Project[i].id) /\ ~ Blacklisted(Project[i].id))
        => Project[i].id \in IncludedIds

C3_Witness ==
  /\ HasList /\ ~ WhitelistOnly
  /\ \E i \in 1..Len(Project) :
       /\ Whitelisted(Project[i].id) /\ ~ Blacklisted(Project[i].id)
       /\ ~ _project_matches_filter(Project[i], Sel.filter_config)
       /\ Project[i].id \in IncludedIds

(* the five rules in order, the first applicable one deciding *)
PriorityChain(project) ==
  IF HasList /\ Blacklisted(project.id) THEN FALSE
  ELSE IF ~ HasList THEN TRUE
  ELSE IF WhitelistOnly THEN Whitelisted(project.id)
  ELSE IF Whitelisted(project.id) THEN TRUE
  ELSE _project_matches_filter(project, Sel.filter_config)

(* C4: the include decision is the priority chain blacklist, no list,      *)
(* whitelist-only, whitelist, structural match; in particular a project    *)
(* with no entry or an unflagged entry, under a list without               *)
(* whitelist_only, is included exactly when the filter accepts it.         *)
C4_PriorityChain ==
  Ok => \A i \in 1..Len(Project) :
          Project[i].id \in IncludedIds <=> PriorityChain(Project[i])

(* the filter decides: it drops a project without an entry and keeps one   *)
(* with an unflagged entry                                                 *)
C4_Witness ==
  /\ HasList /\ ~ WhitelistOnly
  /\ \E i \in 1..Len(Project) :
       /\ SelEntries(Project[i].id) = {}
       /\ ~ _project_matches_filter(Project[i], Sel.filter_config)
       /\ Project[i].id \notin IncludedIds
  /\ \E i \in 1..Len(Project) :
       /\ SelEntries(Project[i].id) # {}
       /\ ~ Whitelisted(Project[i].id) /\ ~ Blacklisted(Project[i].id)
       /\ _project_matches_filter(Project[i], Sel.filter_config)
       /\ Project[i].id \in IncludedIds

(* C5: in the output every row with a manual rank comes before every row   *)
(* without one, for every sort field and direction.                        *)
C5_ManualFirst ==
  Ok => \A i, j \in 1..Len(OutRows) :
          (RowIsManual(OutRows[i]) /\ ~ RowIsManual(OutRows[j])) => i < j

(* a descending list where a manual row precedes an automatic row that     *)
(* comes earlier in the catalog                                            *)
C5_Witness ==
  /\ HasList /\ Sel.sort_descending
  /\ \E i, j \in 1..Len(OutRows) :
       /\ RowIsManual(OutRows[i]) /\ ~ RowIsManual(OutRows[j])
       /\ i < j
       /\ CatalogIndex(OutRows[j].project.id) < CatalogIndex(OutRows[i].project.id)

RanksInOrder == \A i \in 1..Len(OutRows) : OutRows[i].rank = i

(* C6 as stated: ranks are 1..N in output order, N = min(included, limit)  *)
(* whenever a limit is stored, N = included otherwise; display_count = N   *)
(* and total_projects is the catalog size.                                 *)
C6_AsStated ==
  Ok => /\ RanksInOrder
        /\ Len(OutRows) = IF ~ IsNone(Resp.limit)
                          THEN Min(Len(Resp.included), Val(Resp.limit))
                          ELSE Len(Resp.included)
        /\ Resp.display_count = Len(OutRows)
        /\ Resp.total_projects = Len(Project)

(* C6: ranks are 1..N in output order, N = min(included, limit) when the   *)
(* limit is stored and is not 0, N = included when it is null or 0;        *)
(* display_count = N and total_projects is the catalog size.               *)
C6_Ranks ==
  Ok => /\ RanksInOrder
        /\ Len(OutRows) = IF ~ IsNone(Resp.limit) /\ Val(Resp.limit) # 0
                          THEN Min(Len(Resp.included), Val(Resp.limit))
                          ELSE Len(Resp.included)
        /\ Resp.display_count = Len(OutRows)
        /\ Resp.total_projects = Len(Project)

(* limit 1 cuts two or more included rows down to the first *)
C6_Witness ==
  /\ Ok
  /\ Resp.limit = Some(1)
  /\ Len(Resp.included) >= 2
  /\ Resp.display_count = 1
  /\ OutRows[1].rank = 1
  /\ Resp.total_projects = Len(Project)

(* the key the automatic rows were sorted by *)
UsedKey(row) ==
  sort_key(row, EffectiveSortField(Resp.show_scores,
                  IF HasList THEN Sel.sort_field ELSE "alphabetical"))

KeysEqual(a, b) == ~ KeyLess(a, b) /\ ~ KeyLess(b, a)

(* C7: two automatic rows with equal sort keys are in catalog order, in    *)
(* ascending and in descending lists.                                      *)
C7_Stable ==
  Ok => \A p \in AutoPairs :
          KeysEqual(UsedKey(OutRows[p[1]]), UsedKey(OutRows[p[2]]))
            => CatalogIndex(OutRows[p[1]].project.id)
                 < CatalogIndex(OutRows[p[2]].project.id)

(* a descending list with two tied automatic rows and a third row whose    *)
(* key differs from theirs                                                 *)
C7_Witness ==
  /\ HasList /\ Sel.sort_descending
  /\ \E p \in AutoPairs :
       /\ KeysEqual(UsedKey(OutRows[p[1]]), UsedKey(OutRows[p[2]]))
       /\ \E k \in 1..Len(OutRows) :
            /\ ~ RowIsManual(OutRows[k])
            /\ KeyLess(UsedKey(OutRows[k]), UsedKey(OutRows[p[1]]))

ScoreSort == HasList /\ Sel.sort_field \in {"score_raw", "score_scaled"}

(* the stored lists with the selected one sorted alphabetically *)
ListsAlphabetical ==
  [i \in 1..Len(ProjectList) |->
     IF ProjectList[i].id = Sel.id
     THEN [ProjectList[i] EXCEPT !.sort_field = "alphabetical"]
     ELSE ProjectList[i]]

(* C8: for a viewer without score visibility and a list sorted by          *)
(* score_raw or score_scaled, the automatic rows are in case-folded title  *)
(* order, and the output is what the same list gives with sort_field       *)
(* alphabetical.                                                           *)
C8_Downgrade ==
  (ScoreSort /\ ~ Resp.show_scores) =>
    /\ \A p \in AutoPairs : TitleOrdered(p[1], p[2], Sel.sort_descending)
    /\ IdsAndRanks(Resp)
         = IdsAndRanks(project_list_on(
                         Data(Project, ScoreRecord, ListsAlphabetical,
                              ProjectListEntry),
                         Viewer(Resp.role), Resp.requested))

(* an ascending score list shown to such a viewer with two automatic rows  *)
(* whose score keys are in the opposite order                              *)
C8_Witness ==
  /\ ScoreSort /\ ~ Resp.show_scores /\ ~ Sel.sort_descending
  /\ Sel.sort_field = "score_raw"
  /\ \E p \in AutoPairs :
       KeyLess(sort_key(OutRows[p[2]], "score_raw"),
               sort_key(OutRows[p[1]], "score_raw"))

(* the stored data without any score record *)
WithoutScores ==
  Data(Project, [id \in DOMAIN ScoreRecord |-> <<>>], ProjectList, ProjectListEntry)

(* C9: for a viewer without score visibility the projects shown, their     *)
(* order and their ranks do not depend on the score records: they are what *)
(* the same data gives with every score record removed (so any two data    *)
(* sets differing only in scores give the same sequence).                  *)
C9_OrderIgnoresScores ==
  (Answered /\ Resp.role \notin {"admin", "judge"}) =>
    LET bare == project_list_on(WithoutScores, Viewer(Resp.role), Resp.requested)
    IN /\ bare.status = Resp.status
       /\ IdsAndRanks(bare) = IdsAndRanks(Resp)

(* a score_scaled list shown to such a viewer where scores exist and would *)
(* order two automatic rows the other way                                  *)
C9_Witness ==
  /\ ScoreSort /\ ~ Resp.show_scores
  /\ Sel.sort_field = "score_scaled"
  /\ \E p \in AutoPairs :
       IF Sel.sort_descending
       THEN KeyLess(sort_key(OutRows[p[1]], "score_scaled"),
                    sort_key(OutRows[p[2]], "score_scaled"))
       ELSE KeyLess(sort_key(OutRows[p[2]], "score_scaled"),
                    sort_key(OutRows[p[1]], "score_scaled"))

(* no list with the requested slug is visible to the role *)
SlugUnknown ==
  /\ Resp.requested # <<>>
  /\ ~ \E i \in 1..Len(ProjectList) :
         /\ ProjectList[i].slug = Resp.requested
         /\ ProjectList[i].audience \in {"all", Resp.role}

NotFound ==
  /\ Resp.status = "Http404"
  /\ Resp.project_rows = <<>>
  /\ IsNone(Resp.selected_list)

MayList == Resp.role \in {"admin", "judge", "hacktj"}

(* C10 as stated: a non-empty slug that no list visible to the viewer's    *)
(* role carries gives Http404 and no rows, for every viewer.               *)
C10_AsStated == (Answered /\ SlugUnknown) => NotFound

(* C10: for a viewer who may open the project list (admin, judge, hacktj), *)
(* a non-empty slug that no list visible to the role carries gives Http404 *)
(* and no rows, never a default list.                                      *)
C10_NotFound == (Answered /\ MayList /\ SlugUnknown) => NotFound

(* Http404 for a slug that only a list of another audience carries, while  *)
(* a default list is visible to the viewer                                 *)
C10_Witness ==
  /\ Answered /\ MayList /\ SlugUnknown /\ NotFound
  /\ \E i \in 1..Len(ProjectList) : ProjectList[i].slug = Resp.requested
  /\ \E i \in 1..Len(ProjectList) :
       /\ ProjectList[i].is_default
       /\ ProjectList[i].audience \in {"all", Resp.role}

-----------------------------------------------------------------------------
(* the stored lists the viewer's role may see, by position *)
VisibleLists ==
  { i \in 1..Len(ProjectList) : ProjectList[i].audience \in {"all", Resp.role} }

(* the position in S of the list that is first in title order *)
TitleFirst(S) ==
  CHOOSE i \in S :
    \A j \in S \ {i} :
      \/ StrLess(ProjectList[i].title, ProjectList[j].title)
      \/ ProjectList[i].title = ProjectList[j].title /\ i < j

ExpectedDefault ==
  LET defaults == { i \in VisibleLists : ProjectList[i].is_default }
      own == { i \in defaults : ProjectList[i].audience = Resp.role }
  IN IF own # {} THEN Some(ProjectList[TitleFirst(own)])
     ELSE IF defaults # {} THEN Some(ProjectList[TitleFirst(defaults)])
     ELSE IF VisibleLists # {} THEN Some(ProjectList[TitleFirst(VisibleLists)])
     ELSE None

(* C11: without a requested slug the selected list is the default whose    *)
(* audience is the viewer's role if there is one, else the first default   *)
(* in title order, else the first visible list in title order, else none.  *)
C11_DefaultSelection ==
  (Ok /\ Resp.requested = <<>>) => Resp.selected_list = ExpectedDefault

(* the role's own default is selected although a default for audience      *)
(* "all" comes before it in title order                                    *)
C11_Witness ==
  /\ HasList /\ Resp.requested = <<>>
  /\ Sel.is_default /\ Sel.audience = Resp.role
  /\ \E i \in VisibleLists :
       /\ ProjectList[i].is_default
       /\ ProjectList[i].audience = "all"
       /\ StrLess(ProjectList[i].title, Sel.title)

(* C12: when no list is selected, which happens only when none is visible  *)
(* to the viewer, every project of the catalog is a row, the rows are in   *)
(* case-folded title order ascending, and nothing is cut: display_count    *)
(* equals total_projects.                                                  *)
C12_NoConfiguration ==
  (Ok /\ IsNone(Resp.selected_list)) =>
    /\ VisibleLists = {}
    /\ OutIds = { Project[i].id : i \in 1..Len(Project) }
    /\ Len(OutRows) = Len(Project)
    /\ \A i, j \in 1..Len(OutRows) : i < j => TitleOrdered(i, j, FALSE)
    /\ Resp.display_count = Resp.total_projects
    /\ Resp.total_projects = Len(Project)

(* lists are stored but none is for the viewer; a project blacklisted in   *)
(* one of them is shown, and the output is not in catalog order            *)
C12_Witness ==
  /\ Ok /\ IsNone(Resp.selected_list)
  /\ ProjectList # <<>>
  /\ \E e \in ProjectListEntry : e.is_blacklisted /\ e.project \in OutIds
  /\ Len(OutRows) >= 2
  /\ OutRows[1].project.id # Project[1].id

-----------------------------------------------------------------------------
FilterCalled == ~ IsNone(call) /\ Val(call).fn = "_project_matches_filter"

P == Val(call).project

F == Val(call).filter_config

Result == Val(call).result

(* C13: _project_matches_filter returns True for every project when the    *)
(* filter config is None or the empty dict.                                *)
C13_EmptyFilterMatches ==
  (FilterCalled /\ F \in {JNull, EmptyDict}) => Result = Returned(TRUE)

(* both arguments have been passed *)
C13_Witness ==
  /\ FilterCalled /\ F = JNull /\ Result = Returned(TRUE)
  /\ P.main_category = "other" /\ ~ P.is_beginner

(* every value of the filter config is a list of strings *)
ListsOnly(filter_config) ==
  filter_config # JNull
    /\ \A k \in DOMAIN filter_config : filter_config[k].t = "list"

(* the items of a key that is present *)
Items(filter_config, k) == Range(filter_config[k].items)

Has(filter_config, k) == k \in DOMAIN filter_config

(* the flag, under either of its spellings, is true on the project; a name *)
(* outside the alias table is the attribute of that name                   *)
FlagOn(project, flag) ==
  CASE flag \in {"beginner", "is_beginner"} -> project.is_beginner
    [] flag \in {"mobile", "is_mobile"} -> project.is_mobile
    [] flag \in {"web", "is_web"} -> project.is_web
    [] flag \in {"ai_ml", "uses_ai_ml"} -> project.uses_ai_ml
    [] flag \in {"roam", "is_roam"} -> project.is_roam
    [] OTHER -> GetAttr(project, flag)

FlagsHold(project, filter_config) ==
  /\ Has(filter_config, "require_flags") =>
       \A flag \in Items(filter_config, "require_flags") : FlagOn(project, flag)
  /\ Has(filter_config, "exclude_flags") =>
       \A flag \in Items(filter_config, "exclude_flags") : ~ FlagOn(project, flag)

(* C14 as stated: for a filter config of lists, the result is the          *)
(* conjunction over the keys present of: main_category is in               *)
(* main_categories; eligible_categories shares a tag with the project's;   *)
(* every flag of require_flags is true; no flag of exclude_flags is true.  *)
C14_AsStated ==
  (FilterCalled /\ ListsOnly(F)) =>
    Result = Returned(
      /\ Has(F, "main_categories") =>
           P.main_category \in Items(F, "main_categories")
      /\ Has(F, "eligible_categories") =>
           Items(F, "eligible_categories") \cap Range(P.eligible_categories) # {}
      /\ FlagsHold(P, F))

(* the list of categories that counts: main_categories unless it is        *)
(* missing or empty, and then categories                                   *)
CategoryList(filter_config) ==
  IF Has(filter_config, "main_categories")
     /\ Items(filter_config, "main_categories") # {}
  THEN Items(filter_config, "main_categories")
  ELSE IF Has(filter_config, "categories") THEN Items(filter_config, "categories")
  ELSE {}

(* C14: for a filter config of lists, the result is the conjunction of:    *)
(* main_category is in the category list (main_categories, or categories   *)
(* when main_categories is missing or empty), unless that list is empty;   *)
(* eligible_categories, unless missing or empty, shares at least one tag   *)
(* with the project's; every flag of require_flags is true; no flag of     *)
(* exclude_flags is true; flags under either spelling of the alias table.  *)
(* A conjunction has no evaluation order.                                  *)
C14_Conjunction ==
  (FilterCalled /\ ListsOnly(F)) =>
    Result = Returned(
      /\ CategoryList(F) # {} => P.main_category \in CategoryList(F)
      /\ (Has(F, "eligible_categories") /\ Items(F, "eligible_categories") # {}) =>
           Items(F, "eligible_categories") \cap Range(P.eligible_categories) # {}
      /\ FlagsHold(P, F))

(* all four keys constrain and the project passes, sharing one of the two  *)
(* eligible tags and having a required flag under both spellings           *)
C14_Witness ==
  /\ FilterCalled /\ ListsOnly(F)
  /\ {"main_categories", "eligible_categories", "require_flags", "exclude_flags"}
       \subseteq DOMAIN F
  /\ Items(F, "main_categories") # {}
  /\ Items(F, "eligible_categories") \ Range(P.eligible_categories) # {}
  /\ "is_beginner" \in Items(F, "require_flags")
  /\ "mobile" \in Items(F, "exclude_flags")
  /\ Result = Returned(TRUE)

Unrecognized(flag) == flag \notin DOMAIN PROJECT_FLAG_FIELD_MAP

(* the filter config without the unrecognized names in exclude_flags *)
ExcludeRecognizedOnly(filter_config) ==
  [k \in DOMAIN filter_config |->
     IF k = "exclude_flags"
     THEN JList(SelectSeq(filter_config[k].items, LAMBDA flag : ~ Unrecognized(flag)))
     ELSE filter_config[k]]

(* C15 as stated: a flag name outside the alias table counts as false on   *)
(* every project: in require_flags it makes the filter reject the project, *)
(* in exclude_flags it changes nothing, and the call does not raise; also  *)
(* for names of other project attributes such as "title" or "id".          *)
C15_AsStated ==
  (FilterCalled /\ ListsOnly(F)) =>
    /\ ~ Result.raised
    /\ (Has(F, "require_flags")
          /\ \E flag \in Items(F, "require_flags") : Unrecognized(flag))
         => Result = Returned(FALSE)
    /\ Has(F, "exclude_flags")
         => Result = MatchesFilterCall(P, ExcludeRecognizedOnly(F))

(* the filter config without the keys whose value is not a non-empty list *)
WellFormedOnly(filter_config) ==
  [k \in { key \in DOMAIN filter_config :
             filter_config[key].t = "list" /\ filter_config[key].items # <<>> }
     |-> filter_config[k]]

(* C16 as stated: a key that is missing or whose value is null, empty or   *)
(* not a list (a bare string, a number, a boolean) imposes no constraint   *)
(* and raises nothing: the call returns what it returns without such keys. *)
C16_AsStated ==
  (FilterCalled /\ F # JNull) =>
    /\ ~ Result.raised
    /\ Result = MatchesFilterCall(P, WellFormedOnly(F))

-----------------------------------------------------------------------------
(* the average of a row on the axis of the score sort, None without one *)
AxisAverage(row, sort_field) ==
  IF IsNone(row.score_summary) THEN None
  ELSE IF sort_field = "score_raw" THEN Val(row.score_summary).avg_raw
  ELSE Val(row.score_summary).avg_scaled

Unscored(row) == IsNone(row.score_summary)

(* C17 as stated: in a list sorted by score_raw or score_scaled, shown     *)
(* with scores, the sort key of a row without score records is strictly    *)
(* lower than the key of every row with an average on that axis, whatever  *)
(* the average (0 and negative values too); so among the automatic rows    *)
(* the unscored come first in ascending and last in descending order.      *)
C17_AsStated ==
  (ScoreSort /\ Resp.show_scores) =>
    \A i, j \in 1..Len(OutRows) :
      (/\ ~ RowIsManual(OutRows[i]) /\ ~ RowIsManual(OutRows[j])
       /\ Unscored(OutRows[i])
       /\ ~ IsNone(AxisAverage(OutRows[j], Sel.sort_field)))
      => /\ KeyLess(sort_key(OutRows[i], Sel.sort_field),
                    sort_key(OutRows[j], Sel.sort_field))
         /\ IF Sel.sort_descending THEN j < i ELSE i < j

-----------------------------------------------------------------------------
SummaryCalled ==
  ~ IsNone(call) /\ Val(call).fn = "_score_summary_from_records"

Records == Val(call).records

Summary == Val(call).result

(* the records that have a value in the field *)
With(field) == { i \in 1..Len(Records) : ~ IsNone(Records[i][field]) }

RECURSIVE Total(_, _)
Total(field, S) ==
  IF S = {} THEN 0
  ELSE LET i == CHOOSE x \in S : TRUE
       IN Val(Records[i][field]) + Total(field, S \ {i})

(* avg, min and max of one axis are those of the records that have a value *)
(* in the field, min <= avg <= max, and all three are None without any     *)
AxisSummary(field, avg, min, max) ==
  IF With(field) = {} THEN IsNone(avg) /\ IsNone(min) /\ IsNone(max)
  ELSE /\ ~ IsNone(avg) /\ ~ IsNone(min) /\ ~ IsNone(max)
       /\ Val(avg).den > 0
       /\ Val(avg).num * Cardinality(With(field))
            = Total(field, With(field)) * Val(avg).den
       /\ \E i \in With(field) : Val(Records[i][field]) = Val(min)
       /\ \A i \in With(field) : Val(min) <= Val(Records[i][field])
       /\ \E i \in With(field) : Val(Records[i][field]) = Val(max)
       /\ \A i \in With(field) : Val(Records[i][field]) <= Val(max)
       /\ Val(min) * Val(avg).den <= Val(avg).num
       /\ Val(avg).num <= Val(max) * Val(avg).den

(* C18: the summary is None exactly for no records; otherwise count is the *)
(* number of records and on each axis, raw and scaled, avg, min and max    *)
(* are computed over the records that have a value on that axis, with      *)
(* min <= avg <= max, and are None when no record has one.                 *)
C18_Summary ==
  SummaryCalled =>
    /\ IsNone(Summary) <=> Records = <<>>
    /\ Records # <<>> =>
         /\ Val(Summary).count = Len(Records)
         /\ AxisSummary("raw_score", Val(Summary).avg_raw,
                        Val(Summary).min_raw, Val(Summary).max_raw)
         /\ AxisSummary("scaled_score", Val(Summary).avg_scaled,
                        Val(Summary).min_scaled, Val(Summary).max_scaled)

(* three records: one without a raw score, none with a scaled score, and   *)
(* the raw average strictly between a negative minimum and the maximum     *)
C18_Witness ==
  /\ SummaryCalled /\ Len(Records) = 3
  /\ Cardinality(With("raw_score")) = 2
  /\ With("scaled_score") = {}
  /\ IsNone(Val(Summary).avg_scaled)
  /\ Val(Val(Summary).min_raw) < 0
  /\ Val(Val(Summary).min_raw) * Val(Val(Summary).avg_raw).den
       < Val(Val(Summary).avg_raw).num
  /\ Val(Val(Summary).avg_raw).num
       < Val(Val(Summary).max_raw) * Val(Val(Summary).avg_raw).den

-----------------------------------------------------------------------------
Tables == <<Project, ScoreRecord, ProjectList, ProjectListEntry>>

-----------------------------------------------------------------------------
Conflicting(entry) == entry.is_whitelisted /\ entry.is_blacklisted

(* C20: whatever entries are added and changed through validated forms, no *)
(* stored ProjectListEntry is both whitelisted and blacklisted, and saving *)
(* one that is both ends with a ValidationError and the stored entries as  *)
(* they were.                                                              *)
C20_FlagsExclusive ==
  /\ [](\A e \in ProjectListEntry : ~ Conflicting(e))
  /\ [][(IsNone(response) /\ ~ IsNone(response')
          /\ Val(response').status # "deleted"
          /\ Conflicting(Val(response').entry))
        => /\ Val(response').status = "ValidationError"
           /\ ProjectListEntry' = ProjectListEntry]_vars

(* a change that would set both flags on a stored whitelisted entry was    *)
(* refused, and the entry is still stored as it was                        *)
C20_Witness ==
  /\ Answered /\ Resp.status = "ValidationError"
  /\ Conflicting(Resp.entry) /\ clean_fields(Resp.entry)
  /\ \E e \in ProjectListEntry :
       /\ e.project_list = Resp.entry.project_list
       /\ e.project = Resp.entry.project
       /\ e.is_whitelisted /\ ~ e.is_blacklisted
  /\ Cardinality(ProjectListEntry) >= 2

-----------------------------------------------------------------------------
(* C21: project_list gives rows only to viewers whose effective role is    *)
(* admin, judge or hacktj; for every other role it raises PermissionDenied *)
(* before a configuration is selected and returns no rows, whatever slug   *)
(* is requested.                                                           *)
C21_PermissionFirst ==
  Answered =>
    /\ OutRows # <<>> => MayList
    /\ ~ MayList => /\ Resp.status = "PermissionDenied"
                    /\ OutRows = <<>>
                    /\ IsNone(Resp.selected_list)

(* a team or volunteer viewer is refused, once for a slug that no stored   *)
(* list carries and once while lists are stored                            *)
C21_Witness ==
  /\ Answered /\ ~ MayList
  /\ Resp.status = "PermissionDenied"
  /\ Resp.requested # <<>>
  /\ ProjectList # <<>>
  /\ \A i \in 1..Len(ProjectList) : ProjectList[i].slug # Resp.requested

ManualIndexes(r) ==
  SelectSeq([i \in 1..Len(r.project_rows) |-> i],
            LAMBDA i : RowIsManual(r.project_rows[i]))

(* the manual rows of a response, in output order *)
ManualIds(r) ==
  [k \in 1..Len(ManualIndexes(r)) |->
     r.project_rows[ManualIndexes(r)[k]].project.id]

ManualRank(row) == Val(Val(row.entry).manual_rank)

ManualPairs ==
  { <<i, j>> \in (1..Len(OutRows)) \X (1..Len(OutRows)) :
      i < j /\ RowIsManual(OutRows[i]) /\ RowIsManual(OutRows[j]) }

(* the stored lists with the selected one sorted by sort_field in a        *)
(* direction                                                               *)
ListsSorted(sort_field, descending) ==
  [i \in 1..Len(ProjectList) |->
     IF ProjectList[i].id = Sel.id
     THEN [ProjectList[i] EXCEPT !.sort_field = sort_field,
                                 !.sort_descending = descending]
     ELSE ProjectList[i]]

(* C24: the manual rows are in non-decreasing manual_rank order, equal     *)
(* ranks in catalog order, and every sort_field and direction of the       *)
(* selected list gives the same manual rows in the same order.             *)
C24_ManualOrder ==
  (HasList /\ ManualPairs # {}) =>
    /\ \A p \in ManualPairs :
         /\ ManualRank(OutRows[p[1]]) <= ManualRank(OutRows[p[2]])
         /\ ManualRank(OutRows[p[1]]) = ManualRank(OutRows[p[2]])
              => CatalogIndex(OutRows[p[1]].project.id)
                   < CatalogIndex(OutRows[p[2]].project.id)
    /\ \A sort_field \in SortFields, descending \in BOOLEAN :
         ManualIds(Resp)
           = ManualIds(project_list_on(
                         Data(Project, ScoreRecord,
                              ListsSorted(sort_field, descending),
                              ProjectListEntry),
                         Viewer(Resp.role), Resp.requested))

(* a descending list with two manual rows of equal rank and a third of a   *)
(* different rank                                                          *)
C24_Witness ==
  /\ HasList /\ Sel.sort_descending
  /\ \E p \in ManualPairs :
       /\ ManualRank(OutRows[p[1]]) = ManualRank(OutRows[p[2]])
       /\ \E k \in 1..Len(OutRows) :
            /\ RowIsManual(OutRows[k])
            /\ ManualRank(OutRows[k]) # ManualRank(OutRows[p[1]])

UnknownSort == HasList /\ Sel.sort_field \notin SortFields

(* the stored lists, every unknown sort_field replaced by alphabetical *)
ListsKnown ==
  [i \in 1..Len(ProjectList) |->
     IF ProjectList[i].sort_field \notin SortFields
     THEN [ProjectList[i] EXCEPT !.sort_field = "alphabetical"]
     ELSE ProjectList[i]]

(* C25: a sort_field outside alphabetical, created, score_raw and          *)
(* score_scaled raises nothing that alphabetical would not: the request    *)
(* ends as it does with alphabetical in its place, the automatic rows in   *)
(* case-folded title order and the same rows at the same ranks.            *)
C25_UnknownSortField ==
  (Answered /\ \E i \in 1..Len(ProjectList) :
                  ProjectList[i].sort_field \notin SortFields)
  => LET known == project_list_on(
                    Data(Project, ScoreRecord, ListsKnown, ProjectListEntry),
                    Viewer(Resp.role), Resp.requested)
     IN /\ Resp.status = known.status
        /\ IdsAndRanks(Resp) = IdsAndRanks(known)
        /\ UnknownSort =>
             \A p \in AutoPairs : TitleOrdered(p[1], p[2], Sel.sort_descending)

(* an unknown sort_field over rows whose title order is not their catalog  *)
(* order                                                                   *)
C25_Witness ==
  /\ UnknownSort
  /\ \E p \in AutoPairs :
       /\ FoldedTitle(OutRows[p[1]]) # FoldedTitle(OutRows[p[2]])
       /\ CatalogIndex(OutRows[p[1]].project.id)
            > CatalogIndex(OutRows[p[2]].project.id)

(* the stored lists with the selected one uncapped *)
ListsUncapped ==
  [i \in 1..Len(ProjectList) |->
     IF ProjectList[i].id = Sel.id
     THEN [ProjectList[i] EXCEPT !.limit = None]
     ELSE ProjectList[i]]

(* C29: a list whose limit is 0 shows every included row, ranked 1 to the  *)
(* included count, as the same list with limit null does.                  *)
C29_LimitZero ==
  (HasList /\ Sel.limit = Some(0)) =>
    /\ Len(OutRows) = Len(Resp.included)
    /\ Resp.display_count = Len(Resp.included)
    /\ \A i \in 1..Len(OutRows) : OutRows[i].rank = i
    /\ OutRows = project_list_on(
                   Data(Project, ScoreRecord, ListsUncapped, ProjectListEntry),
                   Viewer(Resp.role), Resp.requested).project_rows

(* a list of limit 0 that shows two rows or more *)
C29_Witness ==
  /\ HasList /\ Sel.limit = Some(0)
  /\ Len(OutRows) >= 2

-----------------------------------------------------------------------------
(* C30 as stated, for project_list: a viewer whose effective role is not   *)
(* admin or judge gets show_scores false and a null score_summary in every *)
(* output row, whatever score records the projects have.                   *)
C30_AsStated ==
  (Ok /\ Resp.role \notin {"admin", "judge"}) =>
    /\ ~ Resp.show_scores
    /\ \A i \in 1..Len(OutRows) : IsNone(OutRows[i].score_summary)

-----------------------------------------------------------------------------
(* accounts/views.py: food_checkin, over core/models.py FoodCheckInStatus. *)
(* A badge id and a meal are text as posted, trimmed by the view; the      *)
(* wording of the status message is left out, its kind is kept.            *)

MaxClock == 1      \* timezone.now() takes the values 0..MaxClock

MaxRequests == 2   \* food_checkin requests served at the same time

(* "breakfast", "lunch", "dinner", "midnight_snack" *)
meal_options ==
  << [key |-> <<98, 114, 101, 97, 107, 102, 97, 115, 116>>, field |-> "breakfast"],
     [key |-> <<108, 117, 110, 99, 104>>, field |-> "lunch"],
     [key |-> <<100, 105, 110, 110, 101, 114>>, field |-> "dinner"],
     [key |-> <<109, 105, 100, 110, 105, 103, 104, 116, 95, 115, 110, 97, 99, 107>>,
      field |-> "midnight_snack"] >>

valid_meals == { meal_options[i].key : i \in 1..Len(meal_options) }

MealFields == { meal_options[i].field : i \in 1..Len(meal_options) }

(* the attribute that getattr(status_obj, meal) names *)
MealField(meal) ==
  meal_options[CHOOSE i \in 1..Len(meal_options) : meal_options[i].key = meal].field

(* a FoodCheckInStatus row with the field defaults *)
StatusRow(badge_id) ==
  [badge_id |-> badge_id,
   breakfast |-> FALSE, lunch |-> FALSE, dinner |-> FALSE,
   midnight_snack |-> FALSE,
   last_checked_in_by |-> None, last_checked_in_at |-> None]

(* FoodCheckInStatus.objects.get_or_create(badge_id=badge_id) *)
get_or_create(table, badge_id) ==
  IF \E row \in table : row.badge_id = badge_id
  THEN [status_obj |-> CHOOSE row \in table : row.badge_id = badge_id,
        table |-> table]
  ELSE [status_obj |-> StatusRow(badge_id),
        table |-> table \cup {StatusRow(badge_id)}]

(* status_obj.save(): every field of the row is written *)
save(table, status_obj) ==
  { row \in table : row.badge_id # status_obj.badge_id } \cup {status_obj}

status_data(status_obj) ==
  [field \in MealFields |-> status_obj[field]]

(* what the view answers: PermissionDenied, or the page and its context *)
FoodPage(http, user, method, badge_id, meal, status, data) ==
  [view |-> "food_checkin", http |-> http, user |-> user.id,
   role |-> _effective_role(user), method |-> method,
   submitted_badge_id |-> badge_id, selected_meal |-> meal,
   status |-> status, status_data |-> data]

(* the view up to and with get_or_create: the answer if it ends there, or  *)
(* the row it has read                                                     *)
FoodRead(table, user, method, badge_param, meal_param) ==
  LET badge_id == Strip(badge_param)
      meal == Strip(meal_param)
      got == get_or_create(table, badge_id)
      Ends(page) == [ended |-> TRUE, page |-> page, table |-> table,
                     status_obj |-> StatusRow(<<>>)]
  IN IF _effective_role(user) \notin {"admin", "volunteer", "hacktj"}
     THEN Ends(FoodPage("PermissionDenied", user, method, <<>>, <<>>, None, None))
     ELSE IF method # "POST"
     THEN Ends(FoodPage("ok", user, method, <<>>, <<>>, None, None))
     ELSE IF badge_id = <<>> \/ meal = <<>>
     THEN Ends(FoodPage("ok", user, method, badge_id, meal, Some("error"), None))
     ELSE IF meal \notin valid_meals
     THEN Ends(FoodPage("ok", user, method, badge_id, meal, Some("error"), None))
     ELSE [ended |-> FALSE,
           page |-> FoodPage("ok", user, method, badge_id, meal, None, None),
           table |-> got.table, status_obj |-> got.status_obj]

(* variant: an already checked meal is saved again *)
FoodWriteAlways(table, user, meal, status_obj, at) ==
  LET checked == [status_obj EXCEPT ![MealField(meal)] = TRUE,
                                    !.last_checked_in_by = Some(user.id),
                                    !.last_checked_in_at = Some(at)]
  IN [status |-> IF status_obj[MealField(meal)] THEN "warn" ELSE "success",
      status_obj |-> checked,
      table |-> save(table, checked)]

(* the view after get_or_create, on the row it has read *)
FoodWrite(table, user, meal, status_obj, at) ==
  LET already_checked == status_obj[MealField(meal)]
      checked == [status_obj EXCEPT ![MealField(meal)] = TRUE,
                                    !.last_checked_in_by = Some(user.id),
                                    !.last_checked_in_at = Some(at)]
  IN IF already_checked
     THEN [status |-> "warn", status_obj |-> status_obj, table |-> table]
     ELSE [status |-> "success", status_obj |-> checked,
           table |-> save(table, checked)]

(* the view from the request to its answer, nothing else running *)
food_checkin(table, user, method, badge_param, meal_param, at) ==
  LET read == FoodRead(table, user, method, badge_param, meal_param)
      write == FoodWrite(read.table, user, read.page.selected_meal,
                         read.status_obj, at)
  IN IF read.ended THEN [page |-> read.page, table |-> read.table]
     ELSE [page |-> [read.page EXCEPT !.status = Some(write.status),
                                      !.status_data =
                                         Some(status_data(write.status_obj))],
           table |-> write.table]

(* a volunteer, who may check badges in, and a judge, who may not *)
FoodUsers ==
  { [id |-> 1, role |-> "volunteer", is_staff |-> FALSE, is_superuser |-> FALSE],
    [id |-> 2, role |-> "judge", is_staff |-> FALSE, is_superuser |-> FALSE] }

(* "", " ", "1", " 1", "2" *)
BadgeParams == { <<>>, <<32>>, <<49>>, <<32, 49>>, <<50>> }

(* "", the four meals, " lunch " and "x" *)
MealParams ==
  {<<>>, <<120>>} \cup valid_meals \cup { <<32>> \o meal_options[2].key \o <<32>> }

FoodInit ==
  /\ Project = <<>>
  /\ ScoreRecord = <<>>
  /\ ProjectList = <<>>
  /\ ProjectListEntry = {}
  /\ response = None
  /\ call = None
  /\ Team = {}
  /\ FoodCheckInStatus = {}
  /\ now = 0
  /\ request = <<>>

(* a GET or POST of /food-checkin/, served alone from start to end *)
FoodCheckin ==
  /\ IsNone(response)
  /\ \E user \in FoodUsers, method \in {"GET", "POST"},
        badge_param \in BadgeParams, meal_param \in MealParams :
       LET done == food_checkin(FoodCheckInStatus, user, method, badge_param,
                                meal_param, now)
       IN /\ response' = Some(done.page)
          /\ FoodCheckInStatus' = done.table
  /\ UNCHANGED <<Project, ScoreRecord, ProjectList, ProjectListEntry, call,
                 Team, now, request>>

(* time passes *)
Tick ==
  /\ now < MaxClock
  /\ now' = now + 1
  /\ UNCHANGED <<Project, ScoreRecord, ProjectList, ProjectListEntry, response,
                 call, Team, FoodCheckInStatus, request>>

FoodNext == FoodCheckin \/ Tick \/ Respond

FoodSpec == FoodInit /\ [][FoodNext]_vars

-----------------------------------------------------------------------------
(* a request is answered in this step *)
Served == IsNone(response) /\ ~ IsNone(response')

(* the stored row of a badge, or the defaults when it has none *)
RowOf(table, badge_id) ==
  IF \E row \in table : row.badge_id = badge_id
  THEN CHOOSE row \in table : row.badge_id = badge_id
  ELSE StatusRow(badge_id)

(* no meal flag of a stored row goes from true to false *)
FlagsKept ==
  \A row \in FoodCheckInStatus :
    \E after \in FoodCheckInStatus' :
      /\ after.badge_id = row.badge_id
      /\ \A field \in MealFields : row[field] => after[field]

(* C27: over food_checkin POSTs served one after the other, no meal flag   *)
(* goes from true to false; a check-in of a badge and meal whose flag is   *)
(* not set answers success and sets that flag, last_checked_in_by and      *)
(* last_checked_in_at and nothing else; one whose flag is set answers warn *)
(* and leaves every stored row as it is; an empty badge id or an unknown   *)
(* meal answers error and creates or changes no row.                       *)
C27_Sequential ==
  [][/\ FlagsKept
     /\ (Served /\ Val(response').http = "ok" /\ Val(response').method = "POST")
        => LET page == Val(response')
               badge_id == page.submitted_badge_id
               before == RowOf(FoodCheckInStatus, badge_id)
           IN IF badge_id = <<>> \/ page.selected_meal \notin valid_meals
              THEN /\ page.status = Some("error")
                   /\ FoodCheckInStatus' = FoodCheckInStatus
              ELSE IF before[MealField(page.selected_meal)]
              THEN /\ page.status = Some("warn")
                   /\ FoodCheckInStatus' = FoodCheckInStatus
              ELSE /\ page.status = Some("success")
                   /\ FoodCheckInStatus'
                        = { row \in FoodCheckInStatus : row.badge_id # badge_id }
                          \cup { [before EXCEPT
                                    ![MealField(page.selected_meal)] = TRUE,
                                    !.last_checked_in_by = Some(page.user),
                                    !.last_checked_in_at = Some(now)] }
    ]_vars

(* a check-in answered warn, for a badge with two meals taken, the last of *)
(* them earlier, while another badge has a row too                         *)
C27_Witness ==
  /\ ~ IsNone(response)
  /\ Resp.status = Some("warn")
  /\ LET row == RowOf(FoodCheckInStatus, Resp.submitted_badge_id)
     IN /\ Cardinality({ field \in MealFields : row[field] }) >= 2
        /\ row.last_checked_in_at = Some(0)
        /\ now = 1
  /\ Cardinality(FoodCheckInStatus) = 2

-----------------------------------------------------------------------------
(* food_checkin requests served at the same time: each is a worker that    *)
(* runs get_or_create, then tests the row it holds and saves it; the view  *)
(* takes no lock and opens no transaction, so the database statements of   *)
(* the requests interleave in any order.                                   *)

FoodRaceInit ==
  /\ Project = <<>>
  /\ ScoreRecord = <<>>
  /\ ProjectList = <<>>
  /\ ProjectListEntry = {}
  /\ response = None
  /\ call = None
  /\ Team = {}
  /\ FoodCheckInStatus = {}
  /\ now = 0
  /\ request = [i \in 1..MaxRequests |->
                  [pc |-> "idle", page |-> None, status_obj |-> None]]

(* request i arrives and runs up to and with get_or_create *)
FoodBegin(i) ==
  /\ request[i].pc = "idle"
  /\ \E user \in FoodUsers, method \in {"GET", "POST"},
        badge_param \in BadgeParams \ {<<>>, <<32>>},
        meal_param \in {meal_options[1].key, meal_options[2].key, <<120>>} :
       LET read == FoodRead(FoodCheckInStatus, user, method, badge_param,
                            meal_param)
       IN /\ request' = [request EXCEPT ![i] =
                           [pc |-> IF read.ended THEN "done" ELSE "read",
                            page |-> Some(read.page),
                            status_obj |-> Some(read.status_obj)]]
          /\ FoodCheckInStatus' = read.table
  /\ UNCHANGED <<Project, ScoreRecord, ProjectList, ProjectListEntry, response,
                 call, Team, now>>

(* request i tests the row it read, saves it if the meal was not taken,    *)
(* and answers                                                             *)
FoodFinish(i) ==
  /\ request[i].pc = "read"
  /\ LET page == Val(request[i].page)
         write == FoodWrite(FoodCheckInStatus, [id |-> page.user],
                            page.selected_meal, Val(request[i].status_obj), now)
     IN /\ request' = [request EXCEPT ![i] =
                         [pc |-> "done",
                          page |-> Some([page EXCEPT
                                    !.status = Some(write.status),
                                    !.status_data =
                                       Some(status_data(write.status_obj))]),
                          status_obj |-> Some(write.status_obj)]]
        /\ FoodCheckInStatus' = write.table
  /\ UNCHANGED <<Project, ScoreRecord, ProjectList, ProjectListEntry, response,
                 call, Team, now>>

FoodRaceNext == \E i \in 1..MaxRequests : FoodBegin(i) \/ FoodFinish(i)

FoodRaceSpec == FoodRaceInit /\ [][FoodRaceNext]_vars

AllDone == \A i \in 1..Len(request) : request[i].pc = "done"

Success(i) == Val(request[i].page).status = Some("success")

(* C26 as stated: when food_checkin requests for one badge have been       *)
(* served at the same time and all have finished, every meal for which a   *)
(* request answered success is true in the stored row, and no two requests *)
(* answered success for the same badge and meal.                           *)
C26_AsStated ==
  (request # <<>> /\ AllDone) =>
    /\ \A i \in 1..Len(request) :
         Success(i) =>
           RowOf(FoodCheckInStatus, Val(request[i].page).submitted_badge_id)
             [MealField(Val(request[i].page).selected_meal)]
    /\ \A i, j \in 1..Len(request) :
         (i # j /\ Success(i) /\ Success(j))
           => <<Val(request[i].page).submitted_badge_id,
                Val(request[i].page).selected_meal>>
              # <<Val(request[j].page).submitted_badge_id,
                  Val(request[j].page).selected_meal>>

-----------------------------------------------------------------------------
(* accounts/views.py: my_project_entry and project_detail, over            *)
(* core/models.py Team and Project.  A Project row here carries the fields *)
(* these two views write; of the text fields of the full submission form,  *)
(* title and description are kept, the other eight are saved the same way. *)
(* Time is in minutes since 2026-03-07 00:00, event time.                  *)

CATEGORY_FORM_DEADLINE == 23 * 60 + 30

FULL_SUBMISSION_DEADLINE == 24 * 60 + 8 * 60

(* each deadline and the minute after it *)
Instants ==
  { CATEGORY_FORM_DEADLINE, CATEGORY_FORM_DEADLINE + 1,
    FULL_SUBMISSION_DEADLINE, FULL_SUBMISSION_DEADLINE + 1 }

MAIN_CATEGORY_CHOICES ==
  {"cyber", "finance", "lifestyle", "biomedical", "sustainability", "quantum"}

(* the category and side-track codes in the order sorted() gives them *)
CodeOrder ==
  <<"biomedical", "coder", "cyber", "finance", "lifestyle", "other", "quantum",
    "social_impact", "sustainability">>

(* Project.objects.create(team=team, title=title): the field defaults *)
NewProject(id, team, title) ==
  [id |-> id, team |-> team, title |-> title, description |-> <<>>,
   main_category |-> "other", eligible_categories |-> <<>>,
   is_beginner |-> FALSE, is_mobile |-> FALSE, is_web |-> TRUE,
   uses_ai_ml |-> FALSE, is_roam |-> FALSE,
   category_submitted_at |-> None, full_submitted_at |-> None]

(* user.team_profile: the team whose account the user is, or None *)
team_profile(teams, user) ==
  IF \E t \in teams : t.account = Some(user.id)
  THEN Some(CHOOSE t \in teams : t.account = Some(user.id))
  ELSE None

(* team.project: the project of the team, or None *)
project_of(projects, team) ==
  IF \E i \in 1..Len(projects) : projects[i].team = team.id
  THEN Some(projects[CHOOSE i \in 1..Len(projects) : projects[i].team = team.id])
  ELSE None

(* " Project" *)
ProjectSuffix == <<32, 80, 114, 111, 106, 101, 99, 116>>

(* f"{team.team_name} Project".strip() or f"Team {team.id} Project", for a *)
(* team id of one digit                                                    *)
default_title(team) ==
  IF Strip(team.team_name \o ProjectSuffix) # <<>>
  THEN Strip(team.team_name \o ProjectSuffix)
  ELSE <<84, 101, 97, 109, 32, 48 + team.id>> \o ProjectSuffix

EntryPage(user, to, project_id, message) ==
  [view |-> "my_project_entry", status |-> "redirect", user |-> user.id,
   role |-> _effective_role(user), to |-> to, project_id |-> project_id,
   message |-> message]

(* variant: a project is created whether the team has one or not *)
my_project_entryAlwaysCreates(teams, projects, user) ==
  LET team == team_profile(teams, user)
      id == Len(projects) + 1
  IN IF _effective_role(user) # "team" \/ IsNone(team)
     THEN [page |-> EntryPage(user, "dashboard", None, "error"),
           Project |-> projects]
     ELSE [page |-> EntryPage(user, "project_detail", Some(id), "success"),
           Project |-> Append(projects,
                              NewProject(id, Val(team).id, default_title(Val(team))))]

my_project_entry(teams, projects, user) ==
  LET team == team_profile(teams, user)
      project == project_of(projects, Val(team))
      id == Len(projects) + 1
  IN IF _effective_role(user) # "team"
     THEN [page |-> EntryPage(user, "dashboard", None, "error"),
           Project |-> projects]
     ELSE IF IsNone(team)
     THEN [page |-> EntryPage(user, "dashboard", None, "error"),
           Project |-> projects]
     ELSE IF IsNone(project)
     THEN [page |-> EntryPage(user, "project_detail", Some(id), "success"),
           Project |-> Append(projects,
                              NewProject(id, Val(team).id, default_title(Val(team))))]
     ELSE [page |-> EntryPage(user, "project_detail", Some(Val(project).id), "none"),
           Project |-> projects]

(* variant: role == TEAM, whatever team the project belongs to *)
is_team_viewAnyTeam(teams, user, team) == _effective_role(user) = "team"

is_team_view(teams, user, team) ==
  LET profile == team_profile(teams, user)
      team_account_matches == team.account = Some(user.id)
      team_profile_matches == ~ IsNone(profile) /\ Val(profile).id = team.id
  IN _effective_role(user) = "team"
     /\ (team_account_matches \/ team_profile_matches)

category_locked(at) == at > CATEGORY_FORM_DEADLINE

(* variant: one deadline for both forms *)
submission_lockedWithCategory(at) == at > CATEGORY_FORM_DEADLINE

submission_locked(at) == at > FULL_SUBMISSION_DEADLINE

(* ProjectCategoryForm(request.POST).is_valid() *)
CategoryFormValid(post) ==
  /\ Strip(post.team_name) # <<>>
  /\ post.main_category \in MAIN_CATEGORY_CHOICES
  /\ post.side_mobile_web \in {"mobile", "web"}

(* ProjectSubmissionForm(request.POST, instance=project).is_valid() *)
SubmissionFormValid(post) == Strip(post.title) # <<>>

(* _apply_side_track_flags(project, tracks) *)
_apply_side_track_flags(eligible_categories, tracks) ==
  LET eligible ==
        (Range(eligible_categories)
           \ { key \in {"social_impact", "coder"} : ~ tracks[key] })
        \cup { key \in {"social_impact", "coder"} : tracks[key] }
  IN SelectSeq(CodeOrder, LAMBDA code : code \in eligible)

(* the project after a valid category form *)
CategorySaved(project, post, at) ==
  [project EXCEPT
     !.main_category = post.main_category,
     !.is_beginner = post.side_beginner,
     !.uses_ai_ml = post.side_ai_ml,
     !.is_roam = post.side_roam,
     !.is_mobile = (post.side_mobile_web = "mobile"),
     !.is_web = (post.side_mobile_web = "web"),
     !.eligible_categories =
        _apply_side_track_flags(project.eligible_categories,
                                [social_impact |-> post.side_social_impact,
                                 coder |-> post.side_coder]),
     !.category_submitted_at = Some(at)]

(* the project after a valid full submission form *)
SubmissionSaved(project, post, at) ==
  [project EXCEPT !.title = Strip(post.title),
                  !.description = Strip(post.description),
                  !.full_submitted_at = Some(at)]

DetailPage(status, user, project_id, method, post, message) ==
  [view |-> "project_detail", status |-> status, user |-> user.id,
   role |-> _effective_role(user), project_id |-> project_id,
   method |-> method, post |-> post,
   show_scores |-> _effective_role(user) \in {"admin", "judge"},
   message |-> message]

project_detail(teams, projects, user, project_id, method, post, at) ==
  LET found == \E i \in 1..Len(projects) : projects[i].id = project_id
      n == CHOOSE i \in 1..Len(projects) : projects[i].id = project_id
      project == projects[n]
      team == CHOOSE t \in teams : t.id = project.team
      form_type == Val(post).form_type
      renamed == [team EXCEPT !.team_name = Strip(Val(post).team_name)]
      Same(status, message) ==
        [page |-> DetailPage(status, user, project_id, method, post, message),
         Team |-> teams, Project |-> projects]
  IN IF ~ found THEN Same("Http404", "none")
     ELSE IF ~ (is_team_view(teams, user, team)
                \/ _effective_role(user) \in {"admin", "judge", "hacktj"})
     THEN Same("PermissionDenied", "none")
     ELSE IF ~ (method = "POST" /\ is_team_view(teams, user, team))
     THEN Same("ok", "none")
     ELSE IF form_type = "category"
     THEN IF category_locked(at) THEN Same("ok", "category deadline")
          ELSE IF ~ CategoryFormValid(Val(post)) THEN Same("ok", "none")
          ELSE IF \E t \in teams : t.id # team.id /\ t.team_name = renamed.team_name
          THEN Same("IntegrityError", "none")
          ELSE [page |-> DetailPage("redirect", user, project_id, method, post,
                                    "success"),
                Team |-> (teams \ {team}) \cup {renamed},
                Project |-> [projects EXCEPT
                               ![n] = CategorySaved(project, Val(post), at)]]
     ELSE IF form_type = "full"
     THEN IF submission_locked(at) THEN Same("ok", "submission deadline")
          ELSE IF ~ SubmissionFormValid(Val(post)) THEN Same("ok", "none")
          ELSE [page |-> DetailPage("redirect", user, project_id, method, post,
                                    "success"),
                Team |-> teams,
                Project |-> [projects EXCEPT
                               ![n] = SubmissionSaved(project, Val(post), at)]]
     ELSE Same("ok", "unknown form")

(* the account of team 1; a staff account of role team, the account of     *)
(* team 2; a team account without a team; a judge, an organizer, a         *)
(* volunteer                                                               *)
TeamUsers ==
  { [id |-> 1, role |-> "team", is_staff |-> FALSE, is_superuser |-> FALSE],
    [id |-> 2, role |-> "team", is_staff |-> TRUE, is_superuser |-> FALSE],
    [id |-> 3, role |-> "team", is_staff |-> FALSE, is_superuser |-> FALSE],
    [id |-> 4, role |-> "judge", is_staff |-> FALSE, is_superuser |-> FALSE],
    [id |-> 5, role |-> "hacktj", is_staff |-> FALSE, is_superuser |-> FALSE],
    [id |-> 6, role |-> "volunteer", is_staff |-> FALSE, is_superuser |-> FALSE] }

CategoryPost(team_name, main_category, beginner, social_impact, mobile_web, ai_ml, roam, coder) ==
  [form_type |-> "category", team_name |-> team_name,
   main_category |-> main_category, side_beginner |-> beginner,
   side_social_impact |-> social_impact, side_mobile_web |-> mobile_web,
   side_ai_ml |-> ai_ml, side_roam |-> roam, side_coder |-> coder]

(* category forms: " N ", "B" (the name of team 2), "" and a main category *)
(* that is not offered; full forms: "T" with a description, " U" without,  *)
(* and no title; a form of another type                                    *)
Posts ==
  { CategoryPost(<<32, 78, 32>>, "cyber", TRUE, TRUE, "mobile", FALSE, TRUE, FALSE),
    CategoryPost(<<66>>, "finance", FALSE, FALSE, "web", TRUE, FALSE, TRUE),
    CategoryPost(<<>>, "finance", FALSE, FALSE, "web", FALSE, FALSE, FALSE),
    CategoryPost(<<78>>, "other", FALSE, FALSE, "web", FALSE, FALSE, FALSE),
    [form_type |-> "full", title |-> <<84>>, description |-> <<100>>],
    [form_type |-> "full", title |-> <<32, 85>>, description |-> <<>>],
    [form_type |-> "full", title |-> <<32>>, description |-> <<100>>],
    [form_type |-> "presentation"] }

(* teams "A" and "B" with their accounts; team "B" has its project *)
TeamInit ==
  /\ Team = { [id |-> 1, account |-> Some(1), team_name |-> <<65>>],
              [id |-> 2, account |-> Some(2), team_name |-> <<66>>] }
  /\ Project = << NewProject(1, 2, <<66>> \o ProjectSuffix) >>
  /\ ScoreRecord = <<>>
  /\ ProjectList = <<>>
  /\ ProjectListEntry = {}
  /\ response = None
  /\ call = None
  /\ FoodCheckInStatus = {}
  /\ now = CATEGORY_FORM_DEADLINE
  /\ request = <<>>

(* GET /projects/me/ *)
MyProjectEntry ==
  /\ IsNone(response)
  /\ \E user \in TeamUsers :
       LET done == my_project_entry(Team, Project, user)
       IN /\ response' = Some(done.page)
          /\ Project' = done.Project
  /\ UNCHANGED <<ScoreRecord, ProjectList, ProjectListEntry, call, Team,
                 FoodCheckInStatus, now, request>>

(* GET or POST /projects/<project_id>/ *)
ProjectDetail ==
  /\ IsNone(response)
  /\ \E user \in TeamUsers, project_id \in 1..3,
        post \in {None} \cup { Some(form) : form \in Posts } :
       LET done == project_detail(Team, Project, user, project_id,
                                  IF IsNone(post) THEN "GET" ELSE "POST",
                                  post, now)
       IN /\ response' = Some(done.page)
          /\ Team' = done.Team
          /\ Project' = done.Project
  /\ UNCHANGED <<ScoreRecord, ProjectList, ProjectListEntry, call,
                 FoodCheckInStatus, now, request>>

(* time passes to a later instant *)
Later ==
  /\ \E at \in Instants : at > now /\ now' = at
  /\ UNCHANGED <<Project, ScoreRecord, ProjectList, ProjectListEntry, response,
                 call, Team, FoodCheckInStatus, request>>

TeamNext == MyProjectEntry \/ ProjectDetail \/ Later \/ Respond

TeamSpec == TeamInit /\ [][TeamNext]_vars

-----------------------------------------------------------------------------
Page == Val(response')

DetailServed == Served /\ Page.view = "project_detail"

EntryServed == Served /\ Page.view = "my_project_entry"

StoredProject(project_id) ==
  Project[CHOOSE i \in 1..Len(Project) : Project[i].id = project_id]

Exists(project_id) == \E i \in 1..Len(Project) : Project[i].id = project_id

(* the project belongs to the team whose account the user is *)
OwnProject(user_id, project_id) ==
  \E t \in Team : /\ t.id = StoredProject(project_id).team
                  /\ t.account = Some(user_id)

NothingSaved == Team' = Team /\ Project' = Project

(* C22: through project_detail a user of effective role team sees or       *)
(* changes only the project of the own team: a GET or POST for a project   *)
(* of another team is answered PermissionDenied and saves nothing; a POST  *)
(* by an admin, judge or hacktj viewer saves nothing; whatever is saved is *)
(* saved to the requested project and its team by the account of that     *)
(* team.                                                                   *)
C22_OwnProjectOnly ==
  [][DetailServed =>
       /\ (Page.role = "team" /\ Exists(Page.project_id)
             /\ ~ OwnProject(Page.user, Page.project_id))
          => (Page.status = "PermissionDenied" /\ NothingSaved)
       /\ Page.role \in {"admin", "judge", "hacktj"} => NothingSaved
       /\ ~ NothingSaved =>
            /\ Page.role = "team" /\ OwnProject(Page.user, Page.project_id)
            /\ \A i \in 1..Len(Project) :
                 Project[i].id # Page.project_id => Project'[i] = Project[i]
            /\ \A t \in Team :
                 t.id # StoredProject(Page.project_id).team => t \in Team'
    ]_vars

(* a team account that has its own project is refused a valid category     *)
(* form posted to the project of the other team, before any deadline       *)
C22_Witness ==
  /\ ~ IsNone(response)
  /\ Resp.view = "project_detail"
  /\ Resp.status = "PermissionDenied"
  /\ Resp.role = "team"
  /\ Resp.method = "POST"
  /\ Val(Resp.post).form_type = "category"
  /\ CategoryFormValid(Val(Resp.post))
  /\ ~ category_locked(now)
  /\ Exists(Resp.project_id)
  /\ \E i \in 1..Len(Project) : OwnProject(Resp.user, Project[i].id)

ProjectsOf(projects, team_id) ==
  { i \in 1..Len(projects) : projects[i].team = team_id }

(* C23: every team has at most one project; my_project_entry by a user of  *)
(* effective role team whose team has no project creates one project, of   *)
(* that team, titled "<team_name> Project", and nothing else; with a       *)
(* project already there it creates nothing; for another role or a team    *)
(* user without a team profile it redirects to the dashboard and creates   *)
(* nothing.                                                                *)
C23_OneProjectPerTeam ==
  /\ [](\A t \in Team : Cardinality(ProjectsOf(Project, t.id)) <= 1)
  /\ [][EntryServed =>
          LET own == { t \in Team : t.account = Some(Page.user) }
          IN IF Page.role = "team" /\ own # {}
             THEN LET team == CHOOSE t \in own : TRUE
                  IN IF ProjectsOf(Project, team.id) = {}
                     THEN /\ Len(Project') = Len(Project) + 1
                          /\ SubSeq(Project', 1, Len(Project)) = Project
                          /\ Project'[Len(Project')].team = team.id
                          /\ Project'[Len(Project')].title
                               = team.team_name \o ProjectSuffix
                          /\ Page.to = "project_detail"
                     ELSE /\ Project' = Project
                          /\ Page.to = "project_detail"
             ELSE /\ Project' = Project
                  /\ Page.to = "dashboard"
      ]_vars

(* the account of team 1 asks again after its project was created and its  *)
(* team renamed                                                            *)
C23_Witness ==
  /\ ~ IsNone(response)
  /\ Resp.view = "my_project_entry"
  /\ Resp.to = "project_detail"
  /\ Resp.message = "none"
  /\ \A t \in Team : Cardinality(ProjectsOf(Project, t.id)) = 1
  /\ \E t \in Team : t.id = 1 /\ t.team_name # <<65>>

(* C28: a category form posted after CATEGORY_FORM_DEADLINE and a full     *)
(* submission posted after FULL_SUBMISSION_DEADLINE save nothing, neither  *)
(* a field nor category_submitted_at or full_submitted_at; a valid full    *)
(* submission by the team's account after the category deadline and not    *)
(* after the full-submission deadline is saved.                            *)
C28_Deadlines ==
  [][(DetailServed /\ Page.method = "POST") =>
       LET post == Val(Page.post)
       IN /\ (post.form_type = "category" /\ now > CATEGORY_FORM_DEADLINE)
             => NothingSaved
          /\ (post.form_type = "full" /\ now > FULL_SUBMISSION_DEADLINE)
             => NothingSaved
          /\ (/\ post.form_type = "full"
              /\ now > CATEGORY_FORM_DEADLINE
              /\ now <= FULL_SUBMISSION_DEADLINE
              /\ Strip(post.title) # <<>>
              /\ Page.role = "team"
              /\ Exists(Page.project_id)
              /\ OwnProject(Page.user, Page.project_id))
             => /\ Page.status = "redirect"
                /\ Team' = Team
                /\ \E i \in 1..Len(Project) :
                     /\ Project[i].id = Page.project_id
                     /\ Project' = [Project EXCEPT
                                      ![i] = [Project[i] EXCEPT
                                                !.title = Strip(post.title),
                                                !.description =
                                                   Strip(post.description),
                                                !.full_submitted_at = Some(now)]]
    ]_vars

(* the team's valid category form is refused after the category deadline,  *)
(* on a project whose full submission was saved after that deadline        *)
C28_Witness ==
  /\ ~ IsNone(response)
  /\ Resp.view = "project_detail"
  /\ Resp.message = "category deadline"
  /\ CategoryFormValid(Val(Resp.post))
  /\ LET project == StoredProject(Resp.project_id)
     IN /\ ~ IsNone(project.full_submitted_at)
        /\ Val(project.full_submitted_at) > CATEGORY_FORM_DEADLINE
        /\ IsNone(project.category_submitted_at)

=============================================================================
